----------------------------- MODULE Monitoring -----------------------------
(***************************************************************************)
(* Alerts and their notifications (reporting/monitoring.py).  A monitor    *)
(* run evaluates every rule against the latest sample of every series,     *)
(* commits the alert states, and then sends: it drains the outbox, queues  *)
(* one message per channel, and drains the outbox again.  Each message is  *)
(* sent before the database records that it was, and every channel's       *)
(* message is a commit of its own, so a process that dies in between       *)
(* leaves the two out of step.                                             *)
(*                                                                         *)
(* Times are ages that saturate, so that the scheduler may start runs for  *)
(* ever.  A reading is where a value lies: "ok", "band" (beyond `clear`    *)
(* but not beyond the warning threshold), "warning", "critical", or "none" *)
(* (no value, or a `minimum` that cannot be judged).                       *)
(***************************************************************************)
EXTENDS Integers, Sequences, FiniteSets

CONSTANTS
    Alerts,          \* identities: a rule and a series it matches
    Channels,        \* enabled notification channels
    Route,           \* [Channels -> [type, immediate, digest, severities]]
    Dead,            \* channels whose every delivery fails
    Readings,        \* readings the host may produce
    Visibilities,    \* subsets of {"seen", "hidden", "disabled"}
    Mutes,           \* sets of alerts that maintenance or operators may mute
    Gaps,            \* times between two monitor runs
    Consecutive,     \* observations needed to open an alert
    ClearConsecutive,\* observations needed to close one
    StaleAfter,      \* age beyond which a sample is stale
    Cooldown,        \* time after which a problem is repeated
    DigestInterval,  \* time between two digests
    Limit,           \* pending messages per channel: 1000 in the code
    Batch,           \* messages sent by one drain: 50 in the code
    MaxExponent,     \* retries after which the delay stops growing: 10
    MaxDelay,        \* longest delay before a retry: one day
    MaxFaults        \* bound: deliveries that fail on a live channel, processes that die

Problems == {"warning", "critical"}
Statuses == {"ok", "warning", "critical", "unknown", "disabled"}

(* What the loader guarantees of the constants.                            *)
MonitoringAssumption ==
    /\ Route \in [Channels -> [type: {"heartbeat", "message"}, immediate: BOOLEAN,
                               digest: BOOLEAN, severities: SUBSET Statuses]]
    /\ Dead \subseteq Channels
    /\ Mutes \subseteq SUBSET Alerts
    /\ {Consecutive, ClearConsecutive, Limit, Batch} \subseteq Nat \ {0}
    /\ Gaps \subseteq Nat \ {0}
    /\ Readings \subseteq {"ok", "band", "warning", "critical", "none"}
    /\ {StaleAfter, Cooldown, DigestInterval, MaxExponent, MaxDelay} \subseteq Nat

VARIABLES
    sample,      \* the latest sample of each series
    alert,       \* table alerts
    outbox,      \* table outbox without the sent rows, oldest first
    digestAge,   \* time since a digest was queued, per channel
    pc, todo, events,      \* a run: where it is, channels and events left
    told,        \* what each channel's receiver was told last, per alert
    owed,        \* auxiliary: events decided for a channel, not yet delivered
    observed,    \* auxiliary: the last candidates of distinct observations
    interrupted, \* auxiliary: events that died with their process, per channel
    faults

mvars == <<sample, alert, outbox, digestAge, pc, todo, events, told, owed, observed,
           interrupted, faults>>

Smaller(i, j) == IF i < j THEN i ELSE j
Larger(i, j)  == IF i < j THEN j ELSE i
Window == Larger(Consecutive, ClearConsecutive)
LastOf(s, n) == IF Len(s) <= n THEN s ELSE SubSeq(s, Len(s) - n + 1, Len(s))

(* A row of the outbox: `about` is the status of each alert it reports.    *)
Row(ch, kind, about) ==
    [channel |-> ch, kind |-> kind, about |-> about, attempts |-> 0,
     wait |-> 0, picked |-> FALSE]

Pending(ch) == {i \in DOMAIN outbox : outbox[i].channel = ch}
Awaiting(ch, e) == \E i \in DOMAIN outbox : outbox[i].channel = ch /\ e \in outbox[i].about

(* Which events a channel is sent when they happen.                        *)
Routed(ch, status) ==
    /\ Route[ch].type = "message" /\ Route[ch].immediate
    /\ Route[ch].severities = {} \/ status \in Route[ch].severities

-----------------------------------------------------------------------------
(* evaluate(): one rule against one sample.                                *)

Candidate(prior, reading, stale) ==
    CASE reading = "none" \/ stale -> "unknown"
      [] reading = "band" /\ ~stale -> IF prior.status \in Problems THEN prior.status ELSE "ok"
      [] OTHER -> reading

(* Variant: an old observation that is read again counts as agreement.     *)
StreakReread(prior, candidate, fresh) ==
    IF candidate = prior.candidate THEN Smaller(Window, prior.consecutive + 1) ELSE 1

(* Consecutive observations agree; evaluating one again does not count.    *)
Streak(prior, candidate, fresh) ==
    CASE ~fresh -> prior.consecutive
      [] fresh /\ candidate = prior.candidate -> Smaller(Window, prior.consecutive + 1)
      [] OTHER -> 1

NextStatus(prior, candidate, streak) ==
    LET needed == IF candidate = "ok" THEN ClearConsecutive ELSE Consecutive
    IN  CASE candidate = "unknown" /\ prior.status \in Problems -> prior.status
          [] candidate = "unknown" -> "unknown"
          [] candidate # "unknown" /\ streak >= needed -> candidate
          [] OTHER -> prior.status

(* Variant: a problem is told once.                                        *)
DueOnce(prior, status, candidate, muted) ==
    ~muted /\ candidate # "unknown" /\ status # prior.notified /\ status # "unknown"

(* An event is due on a transition the receivers have not heard of, and    *)
(* again when an open problem has been silent for the cooldown.            *)
Due(prior, status, candidate, muted) ==
    /\ ~muted
    /\ candidate # "unknown"
    /\ \/ status # prior.notified /\ status # "unknown"
       \/ status \in Problems /\ prior.silent >= Cooldown

Judge(prior, s, muted) ==
    LET candidate == Candidate(prior, s.reading, s.age > StaleAfter)
        streak    == Streak(prior, candidate, s.fresh)
        status    == NextStatus(prior, candidate, streak)
        due       == Due(prior, status, candidate, muted)
    IN  [status      |-> status,
         candidate   |-> candidate,
         consecutive |-> streak,
         unknown     |-> candidate = "unknown",
         muted       |-> muted,
         notified    |-> IF due THEN status ELSE prior.notified,
         silent      |-> IF due THEN 0 ELSE prior.silent]

(* Known alerts that no sample of this run matches: their source or rule   *)
(* is switched off, or nothing has been seen of them.                      *)
Unmatched(prior, visibility) ==
    CASE prior.candidate = "" -> prior
      [] prior.candidate # "" /\ visibility = "disabled" ->
             [prior EXCEPT !.status = "disabled", !.candidate = "disabled",
                           !.unknown = FALSE]
      [] OTHER -> [prior EXCEPT !.candidate = "unknown", !.unknown = TRUE]

NoAlert ==
    [status |-> "ok", candidate |-> "", consecutive |-> 0, unknown |-> FALSE,
     muted |-> FALSE, notified |-> "ok", silent |-> Cooldown]

MonitorInit ==
    /\ sample = [a \in Alerts |-> [reading |-> "ok", age |-> 0, fresh |-> TRUE]]
    /\ alert = [a \in Alerts |-> NoAlert]
    /\ outbox = <<>>
    /\ digestAge = [ch \in Channels |-> DigestInterval]
    /\ pc = "idle" /\ todo = {} /\ events = {}
    /\ told = [ch \in Channels |-> [a \in Alerts |-> "ok"]]
    /\ owed = [ch \in Channels |-> {}]
    /\ observed = [a \in Alerts |-> <<>>]
    /\ interrupted = [ch \in Channels |-> {}] /\ faults = 0

-----------------------------------------------------------------------------
(* drain(): at most Batch rows that are due, over all channels, by age.    *)

Ripe(box) == {i \in DOMAIN box : box[i].wait = 0}
Picked(box) ==
    [i \in DOMAIN box |->
        [box[i] EXCEPT !.picked =
            i \in Ripe(box) /\ Cardinality({j \in Ripe(box) : j < i}) < Batch]]

Older(box, gap) ==
    [i \in DOMAIN box |-> [box[i] EXCEPT !.wait = Larger(0, @ - gap)]]

(* A run starts `gap` after the last one: ingest() brings new samples or   *)
(* leaves old ones, evaluate() judges them, the alert states are committed *)
(* and the first drain reads its rows.                                     *)
EvaluateWith(gap, new, visible, mutes) ==
    LET arrived == [a \in Alerts |->
            IF new[a] = "same"
            THEN [sample[a] EXCEPT !.age = Smaller(StaleAfter + 1, @ + gap)]
            ELSE [reading |-> new[a], age |-> 0, fresh |-> TRUE]]
        aged == [a \in Alerts |-> [alert[a] EXCEPT !.silent = Smaller(Cooldown, @ + gap)]]
    IN  /\ alert' = [a \in Alerts |->
                IF visible[a] = "seen" THEN Judge(aged[a], arrived[a], a \in mutes)
                ELSE Unmatched(aged[a], visible[a])]
        /\ sample' = [a \in Alerts |->
                IF visible[a] = "seen" THEN [arrived[a] EXCEPT !.fresh = FALSE] ELSE arrived[a]]
        /\ observed' = [a \in Alerts |->
                IF visible[a] = "seen" /\ arrived[a].fresh
                THEN LastOf(Append(observed[a], alert'[a].candidate), Window)
                ELSE observed[a]]
        /\ events' = {[alert |-> a, status |-> alert'[a].status] : a \in
                {b \in Alerts : /\ visible[b] = "seen"
                                /\ Due(aged[b], alert'[b].status, alert'[b].candidate,
                                       b \in mutes)}}
        /\ owed' = [ch \in Channels |-> owed[ch] \cup {e \in events' : Routed(ch, e.status)}]
        /\ interrupted' = [ch \in Channels |-> interrupted[ch] \ events']
        /\ outbox' = Picked(Older(outbox, gap))
        /\ digestAge' = [ch \in Channels |-> Smaller(DigestInterval, digestAge[ch] + gap)]

Evaluate ==
    /\ pc = "idle"
    /\ \E gap \in Gaps, new \in [Alerts -> Readings \cup {"same"}],
          visible \in [Alerts -> Visibilities], mutes \in Mutes :
        EvaluateWith(gap, new, visible, mutes)
    /\ pc' = "drain" /\ todo' = Channels
    /\ UNCHANGED <<told, faults>>

FirstPicked == CHOOSE i \in DOMAIN outbox :
    outbox[i].picked /\ \A j \in DOMAIN outbox : outbox[j].picked => i <= j

Without(i) == [j \in 1..Len(outbox) - 1 |-> outbox[IF j < i THEN j ELSE j + 1]]

Draining == pc \in {"drain", "last"} /\ \E i \in DOMAIN outbox : outbox[i].picked

Deliver(row) ==
    /\ owed' = [owed EXCEPT ![row.channel] = @ \ row.about]
    /\ told' = [told EXCEPT ![row.channel] =
        [a \in Alerts |-> IF \E e \in row.about : e.alert = a
                          THEN (CHOOSE e \in row.about : e.alert = a).status ELSE @[a]]]

(* Variant: a row that failed is tried again after the first delay.        *)
DelayFlat(attempts) == 1

(* min(86400, 60 * 2^min(attempts, 10)), in units of the first delay.      *)
Delay(attempts) == Smaller(MaxDelay, 2 ^ Smaller(attempts, MaxExponent))

SendRow ==
    /\ Draining
    /\ outbox[FirstPicked].channel \notin Dead
    /\ Deliver(outbox[FirstPicked])
    /\ outbox' = Without(FirstPicked)
    /\ UNCHANGED <<sample, alert, digestAge, pc, todo, events, observed, interrupted,
                   faults>>

(* The delivery raises, before or after the receiver has the message.      *)
SendFails ==
    /\ Draining
    /\ LET row == outbox[FirstPicked]
       IN  /\ IF row.channel \in Dead THEN UNCHANGED <<told, owed, faults>>
              ELSE /\ faults < MaxFaults /\ faults' = faults + 1
                   /\ Deliver(row) \/ UNCHANGED <<told, owed>>
           /\ outbox' = [outbox EXCEPT ![FirstPicked] =
                 [row EXCEPT !.attempts = Smaller(MaxExponent, @ + 1),
                             !.wait = Delay(row.attempts), !.picked = FALSE]]
    /\ UNCHANGED <<sample, alert, digestAge, pc, todo, events, observed, interrupted>>

EndDrain ==
    /\ pc = "drain" /\ ~Draining
    /\ pc' = "queue"
    /\ UNCHANGED <<sample, alert, outbox, digestAge, todo, events, told, owed, observed,
                   interrupted, faults>>

-----------------------------------------------------------------------------
(* One message per channel, each in its own commit.                        *)

Selected(ch) ==
    {e \in events : Route[ch].severities = {} \/ e.status \in Route[ch].severities}

Kind(ch) ==
    CASE Route[ch].type = "heartbeat" -> "heartbeat"
      [] Route[ch].type # "heartbeat" /\ Selected(ch) # {} /\ Route[ch].immediate -> "event"
      [] Route[ch].type # "heartbeat" /\ (Selected(ch) = {} \/ ~Route[ch].immediate)
             /\ Route[ch].digest /\ digestAge[ch] >= DigestInterval -> "digest"
      [] OTHER -> "none"

(* Snapshots that have not been sent are superseded, transitions are not.  *)
(* There is one at most: each superseded the one before it.                *)
Old(ch, kind) == {i \in Pending(ch) : kind \in {"heartbeat", "digest"} /\ outbox[i].kind = kind}
WithoutOld(ch, kind) ==
    IF Old(ch, kind) = {} THEN outbox ELSE Without(CHOOSE i \in Old(ch, kind) : TRUE)

RoomFor(ch, kind) == Cardinality(Pending(ch) \ Old(ch, kind)) < Limit

NothingToQueue(ch) ==
    /\ pc = "queue" /\ ch \in todo /\ Kind(ch) = "none"
    /\ todo' = todo \ {ch}
    /\ UNCHANGED <<sample, alert, outbox, digestAge, pc, events, told, owed, observed,
                   interrupted, faults>>

Enqueue(ch) ==
    /\ pc = "queue" /\ ch \in todo /\ Kind(ch) # "none"
    /\ RoomFor(ch, Kind(ch))
    /\ outbox' = Append(WithoutOld(ch, Kind(ch)),
                        Row(ch, Kind(ch), IF Kind(ch) = "event" THEN Selected(ch) ELSE {}))
    /\ digestAge' = IF Kind(ch) = "digest" THEN [digestAge EXCEPT ![ch] = 0] ELSE digestAge
    /\ todo' = todo \ {ch}
    /\ UNCHANGED <<sample, alert, pc, events, told, owed, observed, interrupted, faults>>

(* Variant: the failure is only reported.                                  *)
ForgottenNever == alert

(* A full queue: the run forgets that it has notified anyone of any event. *)
Forgotten ==
    [a \in Alerts |-> IF \E e \in events : e.alert = a
                      THEN [alert[a] EXCEPT !.notified = "unknown", !.silent = Cooldown]
                      ELSE alert[a]]

QueueFull(ch) ==
    /\ pc = "queue" /\ ch \in todo /\ Kind(ch) # "none"
    /\ ~RoomFor(ch, Kind(ch))
    /\ outbox' = WithoutOld(ch, Kind(ch))
    /\ alert' = Forgotten
    /\ owed' = [c \in Channels |-> {e \in owed[c] : alert'[e.alert].notified # "unknown"}]
    /\ todo' = todo \ {ch}
    /\ UNCHANGED <<sample, digestAge, pc, events, told, observed, interrupted, faults>>

EndQueue ==
    /\ pc = "queue" /\ todo = {}
    /\ pc' = "last" /\ outbox' = Picked(outbox)
    /\ UNCHANGED <<sample, alert, digestAge, todo, events, told, owed, observed, interrupted,
                   faults>>

(* What follows the last drain only removes old samples and sent rows.     *)
EndRun ==
    /\ pc = "last" /\ ~Draining
    /\ pc' = "idle" /\ events' = {}
    /\ UNCHANGED <<sample, alert, outbox, digestAge, todo, told, owed, observed, interrupted,
                   faults>>

(* The process dies: before a delivery, or between the delivery and the    *)
(* commit that records it.  The events it has not queued die with it.      *)
MonitorDies ==
    /\ pc # "idle" /\ faults < MaxFaults /\ faults' = faults + 1
    /\ \/ UNCHANGED <<told, owed>>
       \/ Draining /\ outbox[FirstPicked].channel \notin Dead /\ Deliver(outbox[FirstPicked])
    /\ interrupted' = [ch \in Channels |->
          interrupted[ch] \cup {e \in events \cap owed[ch] : ~Awaiting(ch, e)}]
    /\ outbox' = [i \in DOMAIN outbox |-> [outbox[i] EXCEPT !.picked = FALSE]]
    /\ pc' = "idle" /\ todo' = {} /\ events' = {}
    /\ UNCHANGED <<sample, alert, digestAge, observed>>

MonitorStep ==
    \/ Evaluate \/ SendRow \/ SendFails \/ EndDrain
    \/ \E ch \in Channels : NothingToQueue(ch) \/ Enqueue(ch) \/ QueueFull(ch)
    \/ EndQueue \/ EndRun

MonitorNext == MonitorStep \/ MonitorDies

(* The scheduler starts runs again and again, and a run that is not killed *)
(* goes on to its end.                                                     *)
MonitorFairness == WF_mvars(MonitorStep)

MonitorSpec == MonitorInit /\ [][MonitorNext]_mvars /\ MonitorFairness

-----------------------------------------------------------------------------
(* Types of the monitor's tables and of the run that works on them.        *)
MonitorTypeOK ==
    /\ sample \in [Alerts -> [reading: Readings \cup {"ok"}, age: 0..StaleAfter + 1,
                              fresh: BOOLEAN]]
    /\ alert \in [Alerts -> [status: Statuses, candidate: Statuses \cup {""},
                             consecutive: 0..Window, unknown: BOOLEAN, muted: BOOLEAN,
                             notified: Statuses, silent: 0..Cooldown]]
    /\ \A i \in DOMAIN outbox : outbox[i].channel \in Channels
    /\ \A ch \in Channels : Cardinality(Pending(ch)) <= Limit
    /\ digestAge \in [Channels -> 0..DigestInterval]
    /\ pc \in {"idle", "drain", "queue", "last"} /\ todo \subseteq Channels
    /\ told \in [Channels -> [Alerts -> Statuses]]

(* Debounce and hysteresis (monitoring.py 250-263; docs/operations.md:27,   *)
(* "Re-reading one old observation does not satisfy debounce. Unknown/stale *)
(* data cannot resolve an existing active problem"): an alert that is not   *)
(* coming back from being switched off opens or closes only when the last   *)
(* distinct observations, as many as the rule asks for, all say so.         *)
StatusFromEvidence ==
    \A a \in Alerts :
        LET now  == alert'[a].status
            need == IF now = "ok" THEN ClearConsecutive ELSE Consecutive
        IN  now # alert[a].status /\ now \in Problems \cup {"ok"}
                /\ alert[a].status # "disabled"
            => /\ Len(observed'[a]) >= need
               /\ \A i \in DOMAIN LastOf(observed'[a], need) :
                      LastOf(observed'[a], need)[i] = now

(* docs/operations.md:45: "Delivery is at least once". Between runs every   *)
(* event that was decided has reached each channel it is routed to, or is   *)
(* pending there, or will be decided again because the alert no longer      *)
(* counts as notified, but for events that died in memory with their        *)
(* process (monitoring.py 419-475).                                         *)
EventsKept ==
    pc = "idle" => \A ch \in Channels : \A e \in owed[ch] :
        Awaiting(ch, e) \/ e \in interrupted[ch]

(* While a row that has failed often waits for its next attempt, the two   *)
(* drains of each run have room for every row of the failing channels once *)
(* and for one row of each channel that is sent something by every run.    *)
RoomLeft ==
    \A gap \in Gaps :
        LET runs   == Smaller(MaxDelay, 2 ^ MaxExponent) \div gap
            steady == {ch \in Channels : ch \notin Dead \/ Route[ch].type = "heartbeat"
                                        \/ Route[ch].digest}
        IN  Cardinality(Dead) * Limit + Cardinality(steady) * runs <= 2 * Batch * runs

Stays(a, s) == alert[a].status = s /\ ~alert[a].unknown /\ ~alert[a].muted
Told(ch, a, s) == told[ch][a] = s
=============================================================================

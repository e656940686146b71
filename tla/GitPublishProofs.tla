-------------------------- MODULE GitPublishProofs --------------------------
(***************************************************************************)
(* Theorems about GitPublish, for any contents, modes, number of commits   *)
(* and of faults: what was committed stays on the local branch until it is *)
(* pushed, a push removes nothing the run has not fetched, and a run that  *)
(* counts as published is offered.                                         *)
(***************************************************************************)
EXTENDS GitPublish, TLAPS

-----------------------------------------------------------------------------
(* The inductive invariant *)

Running == pc \notin {"idle", "fetched"}

TextType ==
    text \in Seq(Contents) /\ Made <= MaxCommits /\ foreign \subseteq 1..Made

RemoteType ==
    /\ remote \in [base : History, branch : Branches, pr : BOOLEAN]
    /\ tracking \in [base : History, branch : Branches]

HeadType == local \in Branches /\ journal \in Branches /\ tree \in Contents \cup {None}

BookType == pub \in Publication /\ saved \in Publication

RestType ==
    /\ mode \in Modes
    /\ pc \in {"idle", "fetched", "tasks", "commit", "push", "pr", "done", "failed"}
    /\ force \in BOOLEAN /\ found \in BOOLEAN /\ abandoned \in BOOLEAN
    /\ faults \in 0..MaxFaults

Known(h) == Ids(h) \subseteq 1..Made

\* Every commit there is has a snapshot.
KnownInv ==
    /\ Known(remote.base) /\ Known(remote.branch)
    /\ Known(tracking.base) /\ Known(tracking.branch) /\ Known(local)

\* A run has a journal, a branch and a worktree, and commits what it stored.
RunInv ==
    /\ pc = "fetched" => mode # "direct" /\ journal = None
    /\ Running => journal # None /\ tree # None
    /\ pc \in {"tasks", "commit"} => journal = local
    /\ mode = "direct" => local # None /\ tree # None
    /\ journal # None => local # None /\ Ids(journal) \subseteq Ids(local)
    /\ pc = "tasks" => tree = Content(local)
    /\ pc = "commit" /\ tree # Content(local) => Made < MaxCommits
    /\ pc \in {"push", "pr", "done"} => tree = Content(local)

\* What was pushed stays on the branch for as long as there is one.
OfferInv ==
    /\ remote.pr => remote.branch # None
    /\ pc = "pr" /\ remote.branch # None => IsPrefix(local, remote.branch)

\* The head the next run starts from, once this one is undone.
Basis == IF journal = None THEN local ELSE journal

\* An unpublished commit in the state document is that head.
BookInv ==
    /\ pc \in {"idle", "fetched", "tasks", "commit"} => pub = saved
    /\ pc \in {"push", "pr", "done"} => pub.local = local
    /\ pc = "failed" => pub.local = local \/ (pub = saved /\ journal = local)
    /\ \A book \in {pub, saved} : book.local = None => book.pushed = None
    /\ saved.local # saved.pushed /\ ~abandoned => saved.local = Basis

IInv ==
    /\ TextType /\ RemoteType /\ HeadType /\ BookType /\ RestType
    /\ KnownInv /\ RunInv /\ OfferInv /\ BookInv

-----------------------------------------------------------------------------
(* Histories *)

LEMMA Appended ==
    ASSUME NEW h \in History, NEW n \in Commits
    PROVE  /\ Append(h, n) \in History
           /\ Append(h, n) # None
           /\ Ids(Append(h, n)) = Ids(h) \cup {n}
           /\ Last(Append(h, n)) = n
           /\ IsPrefix(h, Append(h, n))
<1>1. /\ Append(h, n) \in Seq(Commits) /\ Append(h, n) # <<>>
      /\ Len(Append(h, n)) = Len(h) + 1 /\ DOMAIN Append(h, n) = 1..(Len(h) + 1)
      /\ \A i \in 1..Len(h) : Append(h, n)[i] = h[i]
      /\ Append(h, n)[Len(h) + 1] = n
      /\ h # None /\ Len(h) \in Nat /\ DOMAIN h = 1..Len(h)
  BY GitPublishAssumption DEF History
<1>2. Append(h, n) \in History /\ Append(h, n) # None
  BY <1>1, GitPublishAssumption DEF History
<1>3. Ids(Append(h, n)) = Ids(h) \cup {n}
  BY <1>1, <1>2 DEF Ids
<1>4. Last(Append(h, n)) = n
  BY <1>1 DEF Last
<1>5. IsPrefix(h, Append(h, n))
  BY <1>1 DEF IsPrefix, History
<1> QED
  BY <1>2, <1>3, <1>4, <1>5

LEMMA Prefixed ==
    ASSUME NEW g \in History, NEW h \in History
    PROVE  /\ IsPrefix(h, h)
           /\ IsPrefix(g, h) => Ids(g) \subseteq Ids(h)
           /\ \A n \in Commits : IsPrefix(g, h) => IsPrefix(g, Append(h, n))
<1>1. IsPrefix(h, h)
  BY DEF IsPrefix, History
<1>2. ASSUME IsPrefix(g, h)
      PROVE  Len(g) <= Len(h) /\ \A i \in 1..Len(g) : g[i] = h[i]
  <2>1. g \in Seq(Commits) /\ h \in Seq(Commits) /\ Len(g) <= Len(h)
    BY <1>2 DEF IsPrefix, History
  <2>2. \A i \in 1..Len(g) : SubSeq(g, 1, Len(g))[i] = g[i] /\ SubSeq(h, 1, Len(g))[i] = h[i]
    BY <2>1
  <2> QED
    BY <1>2, <2>1, <2>2 DEF IsPrefix
<1>3. IsPrefix(g, h) => Ids(g) \subseteq Ids(h)
  BY <1>2, GitPublishAssumption DEF Ids, History
<1>4. ASSUME IsPrefix(g, h), NEW n \in Commits
      PROVE  IsPrefix(g, Append(h, n))
  <2>1. /\ Append(h, n) \in Seq(Commits) /\ g \in Seq(Commits) /\ h \in Seq(Commits)
        /\ Len(Append(h, n)) = Len(h) + 1
        /\ \A i \in 1..Len(h) : Append(h, n)[i] = h[i]
    BY DEF History
  <2>2. Len(g) <= Len(Append(h, n)) /\ \A i \in 1..Len(g) : g[i] = Append(h, n)[i]
    BY <1>2, <1>4, <2>1
  <2>3. SubSeq(g, 1, Len(g)) = SubSeq(Append(h, n), 1, Len(g))
    BY <2>1, <2>2
  <2> QED
    BY <2>2, <2>3 DEF IsPrefix
<1> QED
  BY <1>1, <1>3, <1>4

\* A snapshot is looked up by the last commit, and stays as others are added.
LEMMA Looked ==
    ASSUME TextType, NEW h \in History, Known(h)
    PROVE  /\ Content(h) \in Contents
           /\ \A c \in Contents : Append(text, c)[Last(h)] = text[Last(h)]
<1>1. h \in Seq(Commits) /\ h # <<>> /\ h # None
  BY GitPublishAssumption DEF History
<1>2. Last(h) \in Ids(h)
  BY <1>1 DEF Last, Ids
<1>3. Last(h) \in 1..Len(text) /\ text \in Seq(Contents)
  BY <1>2 DEF Known, Made, TextType
<1> QED
  BY <1>3 DEF Content

LEMMA Empty == Ids(None) = {} /\ None \notin History
BY GitPublishAssumption DEF Ids

-----------------------------------------------------------------------------
(* What the invariant says of the histories at hand *)

AtHand == {remote.base, remote.branch, tracking.base, tracking.branch, local}

LEMMA Standing ==
    ASSUME IInv
    PROVE  /\ History \subseteq Branches /\ None \in Branches /\ None \notin History
           /\ remote.base \in History /\ remote.branch \in Branches
           /\ tracking.base \in History /\ tracking.branch \in Branches
           /\ \A h \in AtHand : h # None => h \in History /\ Content(h) \in Contents
           /\ Made \in Nat /\ Made <= MaxCommits
<1>1. History \subseteq Branches /\ None \in Branches /\ None \notin History
  BY Empty DEF Branches
<1>2. /\ remote.base \in History /\ remote.branch \in Branches
      /\ tracking.base \in History /\ tracking.branch \in Branches
      /\ local \in Branches
  BY DEF IInv, RemoteType, HeadType
<1>3. ASSUME NEW h \in AtHand, h # None
      PROVE  h \in History /\ Content(h) \in Contents
  <2>1. h \in History
    BY <1>2, <1>3 DEF AtHand, Branches
  <2>2. Known(h)
    BY <1>3 DEF IInv, KnownInv, AtHand
  <2> QED
    BY <2>1, <2>2, Looked DEF IInv
<1>4. Made \in Nat /\ Made <= MaxCommits
  BY DEF IInv, TextType, Made
<1> QED
  BY <1>1, <1>2, <1>3, <1>4

\* A new commit by anyone leaves the others as they are.
LEMMA Committed ==
    ASSUME IInv, NEW c \in Contents, NewCommit(c), Made < MaxCommits
    PROVE  /\ text' \in Seq(Contents) /\ Made' = Made + 1 /\ Made + 1 \in Commits
           /\ 1..Made \subseteq 1..Made' /\ Made + 1 \in 1..Made'
           /\ text'[Made + 1] = c
           /\ \A h \in AtHand : h # None => text'[Last(h)] = Content(h)
<1>1. text \in Seq(Contents) /\ text' = Append(text, c)
  BY DEF IInv, TextType, NewCommit
<1>2. /\ text' \in Seq(Contents) /\ Made' = Made + 1 /\ Made + 1 \in Commits
      /\ 1..Made \subseteq 1..Made' /\ Made + 1 \in 1..Made'
      /\ text'[Made + 1] = c
  BY <1>1, GitPublishAssumption DEF Made, Commits
<1>3. ASSUME NEW h \in AtHand, h # None
      PROVE  text'[Last(h)] = Content(h)
  <2>1. h \in History /\ Known(h)
    BY <1>3, Standing DEF IInv, KnownInv, AtHand
  <2> QED
    BY <1>1, <2>1, Looked DEF IInv, Content
<1> QED
  BY <1>2, <1>3

-----------------------------------------------------------------------------
(* What others do *)

\* Others commit to the base or to the published branch.
LEMMA OthersCommit ==
    ASSUME IInv, Others, NEW c \in Contents, TheirCommit(c),
           foreign' \in {foreign, foreign \cup {Made + 1}},
           NEW parent \in History, parent \in AtHand,
           \/ remote' = [remote EXCEPT !.branch = Append(parent, Made + 1)]
           \/ remote' = [remote EXCEPT !.base = Append(parent, Made + 1)]
           \/ remote' = [remote EXCEPT !.base = Append(parent, Made + 1), !.pr = FALSE],
           OfferInv'
    PROVE  IInv'
<1> DEFINE new == Append(parent, Made + 1)
<1>1. /\ mode' = mode /\ tracking' = tracking /\ local' = local /\ tree' = tree /\ pub' = pub
      /\ saved' = saved /\ pc' = pc /\ force' = force /\ found' = found
      /\ journal' = journal /\ abandoned' = abandoned /\ faults' = faults
  BY DEF Others, run
<1>2. Made \in Nat /\ Made + 1 < MaxCommits /\ NewCommit(c) /\ Made < MaxCommits
  BY Standing, GitPublishAssumption DEF TheirCommit
<1>3. /\ text' \in Seq(Contents) /\ Made' = Made + 1 /\ Made + 1 \in Commits
      /\ 1..Made \subseteq 1..Made' /\ Made + 1 \in 1..Made'
      /\ \A h \in AtHand : h # None => text'[Last(h)] = Content(h)
  BY <1>2, Committed
<1>4. new \in History /\ Ids(new) = Ids(parent) \cup {Made + 1}
  BY <1>3, Appended
<1>5. Known(parent)
  BY DEF AtHand, IInv, KnownInv
<1>6. Ids(new) \subseteq 1..Made'
  BY <1>3, <1>4, <1>5 DEF Known
<1>7. /\ remote'.base \in {remote.base, new} /\ remote'.branch \in {remote.branch, new}
      /\ remote' \in [base : History, branch : Branches, pr : BOOLEAN]
  BY <1>4, Standing DEF IInv, RemoteType
<1>8. TextType'
  BY <1>2, <1>3, GitPublishAssumption DEF IInv, TextType, Made
<1>9. RemoteType' /\ HeadType' /\ BookType' /\ RestType'
  BY <1>1, <1>7 DEF IInv, RemoteType, HeadType, BookType, RestType
<1>10. KnownInv'
  BY <1>1, <1>3, <1>6, <1>7 DEF IInv, KnownInv, Known
<1>11. RunInv'
  <2>1. local # None => (Content(local))' = Content(local)
    BY <1>1, <1>3 DEF Content, AtHand
  <2>2. pc \in {"tasks", "commit", "push", "pr", "done"} => local # None
    BY DEF IInv, RunInv, Running, RestType
  <2> QED
    BY <1>1, <1>2, <1>3, <2>1, <2>2, GitPublishAssumption DEF IInv, RunInv, Running
<1>12. BookInv'
  BY <1>1 DEF IInv, BookInv, Basis
<1> QED
  BY <1>8, <1>9, <1>10, <1>11, <1>12 DEF IInv

LEMMA PushElsewhereStep == ASSUME IInv, PushElsewhere PROVE IInv'
<1> DEFINE parent == IF remote.branch = None THEN remote.base ELSE remote.branch
<1>1. /\ mode' = mode /\ local' = local /\ pc' = pc
  BY DEF PushElsewhere, Others, run
<1>2. parent \in History /\ parent \in AtHand /\ remote.base \in AtHand
      /\ Content(parent) \in Contents /\ Content(remote.base) \in Contents
      /\ remote.base \in History
  BY Standing DEF AtHand
<1>3. Made + 1 \in Commits
  BY Standing, GitPublishAssumption DEF PushElsewhere, TheirCommit, Commits
<1>4. CASE /\ remote.branch = None => pc # "pr"
           /\ TheirCommit(Content(parent))
           /\ foreign' = foreign \cup {Made + 1}
           /\ remote' = [remote EXCEPT !.branch = Append(parent, Made + 1)]
  <2>1. remote'.branch = Append(parent, Made + 1) /\ remote'.pr = remote.pr
    BY <1>4 DEF IInv, RemoteType
  <2>2. remote'.branch # None
    BY <2>1, <1>2, <1>3, Appended
  <2>3. pc = "pr" => remote.branch # None /\ parent = remote.branch
    BY <1>4
  <2>4. pc = "pr" => local \in History /\ IsPrefix(local, parent)
    BY <2>3, Standing DEF IInv, OfferInv, RunInv, Running, AtHand
  <2>5. pc = "pr" => IsPrefix(local, remote'.branch)
    BY <2>1, <2>4, <1>2, <1>3, Prefixed
  <2>6. OfferInv'
    BY <1>1, <2>2, <2>5 DEF OfferInv
  <2> QED
    BY <1>2, <1>4, <2>6, OthersCommit DEF PushElsewhere
<1>5. CASE /\ TheirCommit(Content(remote.base))
           /\ remote' = [remote EXCEPT !.base = Append(@, Made + 1)]
           /\ UNCHANGED foreign
  <2>1. remote'.branch = remote.branch /\ remote'.pr = remote.pr
    BY <1>5 DEF IInv, RemoteType
  <2>2. OfferInv'
    BY <1>1, <2>1 DEF IInv, OfferInv
  <2> QED
    BY <1>2, <1>5, <2>2, OthersCommit DEF PushElsewhere
<1> QED
  BY <1>4, <1>5 DEF PushElsewhere

\* Others change what the pull request or the branch is, and commit nothing.
LEMMA OthersMove ==
    ASSUME IInv, Others, UNCHANGED <<text, foreign>>,
           remote'.base \in {remote.base, remote.branch} \ {None},
           remote'.branch \in {remote.branch, None},
           remote' \in [base : History, branch : Branches, pr : BOOLEAN],
           OfferInv'
    PROVE  IInv'
<1>1. /\ mode' = mode /\ tracking' = tracking /\ local' = local /\ tree' = tree /\ pub' = pub
      /\ saved' = saved /\ pc' = pc /\ force' = force /\ found' = found
      /\ journal' = journal /\ abandoned' = abandoned /\ faults' = faults
      /\ text' = text /\ foreign' = foreign
  BY DEF Others, run
<1>2. TextType' /\ RemoteType' /\ HeadType' /\ BookType' /\ RestType'
  BY <1>1 DEF IInv, TextType, Made, RemoteType, HeadType, BookType, RestType
<1>3. KnownInv'
  BY <1>1, Empty DEF IInv, KnownInv, Known, Made
<1>4. RunInv' /\ BookInv'
  BY <1>1 DEF IInv, RunInv, Running, Content, Made, BookInv, Basis
<1> QED
  BY <1>2, <1>3, <1>4 DEF IInv

LEMMA OpenPrStep == ASSUME IInv, OpenPr PROVE IInv'
<1>1. /\ remote'.base = remote.base /\ remote'.branch = remote.branch
      /\ remote' \in [base : History, branch : Branches, pr : BOOLEAN]
  BY DEF IInv, RemoteType, OpenPr
<1>2. remote.branch # None /\ local' = local /\ pc' = pc
  BY DEF OpenPr, Creatable, Others, run
<1>3. OfferInv'
  BY <1>1, <1>2 DEF IInv, OfferInv
<1> QED
  BY <1>1, <1>3, Standing, OthersMove DEF OpenPr

LEMMA MergePrStep == ASSUME IInv, MergePr PROVE IInv'
<1>1. remote.pr /\ remote.branch # None /\ local' = local /\ pc' = pc /\ foreign' = foreign
  BY DEF IInv, OfferInv, MergePr, Others, run
<1>2. remote.branch \in History /\ remote.branch \in AtHand /\ remote.base \in AtHand
      /\ Content(remote.branch) \in Contents /\ remote.base \in History
  BY <1>1, Standing DEF AtHand
<1>3. CASE IsPrefix(remote.base, remote.branch)
  <2>1. /\ remote'.base = remote.branch /\ remote'.branch = remote.branch
        /\ remote' \in [base : History, branch : Branches, pr : BOOLEAN]
    BY <1>2, <1>3 DEF IInv, RemoteType, MergePr
  <2>2. OfferInv'
    BY <1>1, <2>1 DEF IInv, OfferInv
  <2>3. UNCHANGED <<text, foreign>>
    BY <1>3 DEF MergePr
  <2> QED
    BY <1>1, <2>1, <2>2, <2>3, OthersMove DEF MergePr
<1>4. CASE ~IsPrefix(remote.base, remote.branch)
  <2>1. /\ remote' = [remote EXCEPT !.base = Append(remote.base, Made + 1), !.pr = FALSE]
        /\ TheirCommit(Content(remote.branch))
    BY <1>4 DEF MergePr
  <2>2. remote'.branch = remote.branch /\ ~remote'.pr
    BY <2>1 DEF IInv, RemoteType
  <2>3. OfferInv'
    BY <1>1, <2>2 DEF IInv, OfferInv
  <2> QED
    BY <1>1, <1>2, <2>1, <2>3, OthersCommit DEF MergePr
<1> QED
  BY <1>3, <1>4

LEMMA ClosePrStep == ASSUME IInv, ClosePr PROVE IInv'
<1>1. /\ remote'.base = remote.base /\ remote'.branch = remote.branch /\ ~remote'.pr
      /\ remote' \in [base : History, branch : Branches, pr : BOOLEAN]
  BY DEF IInv, RemoteType, ClosePr
<1>2. OfferInv'
  BY <1>1 DEF IInv, OfferInv, ClosePr, Others, run
<1> QED
  BY <1>1, <1>2, Standing, OthersMove DEF ClosePr

LEMMA DeleteBranchStep == ASSUME IInv, DeleteBranch PROVE IInv'
<1>1. /\ remote'.base = remote.base /\ remote'.branch = None
      /\ remote'.pr = remote.pr
      /\ remote' \in [base : History, branch : Branches, pr : BOOLEAN]
  BY Standing DEF IInv, RemoteType, DeleteBranch
<1>2. ~remote.pr /\ ~remote'.pr
  BY DEF DeleteBranch, IInv, RemoteType
<1>3. OfferInv'
  BY <1>1, <1>2 DEF OfferInv
<1> QED
  BY <1>1, <1>3, Standing, OthersMove DEF DeleteBranch

-----------------------------------------------------------------------------
(* Before the tasks *)

\* Steps that leave commits and branches alone.
LEMMA Still ==
    ASSUME IInv, UNCHANGED <<mode, git>>
    PROVE  /\ TextType' /\ RemoteType' /\ KnownInv' /\ mode' \in Modes
           /\ local' \in Branches /\ Made' = Made
           /\ \A h \in AtHand : (Content(h))' = text[Last(h')]
           /\ (Content(local))' = Content(local)
           /\ remote' = remote /\ local' = local
BY DEF IInv, TextType, RemoteType, KnownInv, RestType, HeadType, git, Known, Made, Content

LEMMA RecoverStep == ASSUME IInv, Recover PROVE IInv'
<1>1. /\ UNCHANGED <<mode, git>> /\ pc = "idle" /\ journal = local /\ local # None
      /\ journal' = None /\ pc' = pc /\ pub' = pub /\ saved' = saved
      /\ abandoned' = abandoned /\ force' = force /\ found' = found /\ faults' = faults
      /\ tree' = Discarded(Content(local))
  BY DEF Recover, Refused, IInv, RunInv
<1>2. Content(local) \in Contents
  BY <1>1, Standing DEF AtHand
<1>3. tree' \in Contents \cup {None} /\ (mode = "direct" => tree' # None)
  BY <1>1, <1>2, GitPublishAssumption DEF Discarded
<1>4. HeadType' /\ BookType' /\ RestType'
  BY <1>1, <1>3, Still, Standing DEF IInv, HeadType, BookType, RestType
<1>5. RunInv'
  BY <1>1, <1>3, Still DEF RunInv, Running
<1>6. OfferInv' /\ BookInv'
  BY <1>1, Still DEF IInv, OfferInv, BookInv, Basis
<1> QED
  BY <1>1, <1>4, <1>5, <1>6, Still DEF IInv

LEMMA ResetJournalStep == ASSUME IInv, ResetJournal PROVE IInv'
<1>1. /\ UNCHANGED <<mode, git>> /\ pc = "idle" /\ tree' = tree
      /\ journal' = None /\ pc' = pc /\ pub' = pub /\ saved' = saved
      /\ abandoned' = TRUE /\ force' = force /\ found' = found /\ faults' = faults
  BY DEF ResetJournal
<1>2. HeadType' /\ BookType' /\ RestType'
  BY <1>1, Still, Standing DEF IInv, HeadType, BookType, RestType
<1>3. RunInv'
  BY <1>1, Still DEF IInv, RunInv, Running
<1>4. OfferInv' /\ BookInv'
  BY <1>1, Still DEF IInv, OfferInv, BookInv
<1> QED
  BY <1>1, <1>2, <1>3, <1>4, Still DEF IInv

LEMMA CleanCheckoutStep == ASSUME IInv, CleanCheckout PROVE IInv'
<1>1. /\ UNCHANGED <<mode, git>> /\ pc = "idle" /\ tree' = Content(local)
      /\ journal = None /\ mode = "direct"
      /\ journal' = None /\ pc' = pc /\ pub' = pub /\ saved' = saved
      /\ abandoned' = abandoned /\ force' = force /\ found' = found /\ faults' = faults
  BY DEF CleanCheckout, run
<1>2. local # None /\ Content(local) \in Contents
  BY <1>1, Standing DEF AtHand, IInv, RunInv
<1>3. tree' \in Contents /\ tree' # None
  BY <1>1, <1>2, GitPublishAssumption
<1>4. HeadType' /\ BookType' /\ RestType'
  BY <1>1, <1>3, Still, Standing DEF IInv, HeadType, BookType, RestType
<1>5. RunInv'
  BY <1>1, <1>2, <1>3, Still DEF RunInv, Running
<1>6. OfferInv' /\ BookInv'
  BY <1>1, Still DEF IInv, OfferInv, BookInv, Basis
<1> QED
  BY <1>1, <1>4, <1>5, <1>6, Still DEF IInv

LEMMA FetchStep == ASSUME IInv, Fetch PROVE IInv'
<1>1. /\ mode' = mode /\ text' = text /\ foreign' = foreign /\ remote' = remote
      /\ local' = local /\ tree' = tree /\ pub' = pub /\ saved' = saved /\ force' = force
      /\ found' = found /\ journal' = journal /\ abandoned' = abandoned /\ faults' = faults
      /\ pc = "idle" /\ pc' = "fetched" /\ journal = None /\ mode # "direct"
  BY DEF Fetch
<1>2. tracking' = [base |-> remote.base, branch |-> remote.branch]
  BY DEF Fetch, Fetched
<1>3. /\ tracking'.base = remote.base /\ tracking'.branch = remote.branch
      /\ tracking' \in [base : History, branch : Branches]
  BY <1>2, Standing
<1>4. TextType' /\ RemoteType' /\ HeadType' /\ BookType' /\ RestType'
  BY <1>1, <1>3 DEF IInv, TextType, Made, RemoteType, HeadType, BookType, RestType
<1>5. KnownInv'
  BY <1>1, <1>3 DEF IInv, KnownInv, Known, Made
<1>6. RunInv' /\ OfferInv' /\ BookInv'
  BY <1>1 DEF IInv, RunInv, Running, Content, Made, OfferInv, BookInv, Basis
<1> QED
  BY <1>4, <1>5, <1>6 DEF IInv

\* Where the branch is moved to: an unpublished commit is not left.
LEMMA Start ==
    ASSUME IInv, pc = "fetched", OpenPrFound => tracking.branch # None
    PROVE  /\ StartRef \in AtHand /\ StartRef # None
           /\ ~Resumed => StartRef \in {tracking.base, tracking.branch}
           /\ saved.local # saved.pushed /\ ~abandoned => StartRef = saved.local
<1>1. journal = None /\ pub = saved
  BY DEF IInv, RunInv, BookInv
<1>2. StartRef \in AtHand /\ StartRef # None
      /\ (~Resumed => StartRef \in {tracking.base, tracking.branch})
  BY Standing DEF StartRef, Resumed, AtHand
<1>3. ASSUME saved.local # saved.pushed, ~abandoned
      PROVE  StartRef = saved.local
  <2>1. saved.local = local
    BY <1>1, <1>3 DEF IInv, BookInv, Basis
  <2>2. saved.local # None
    BY <1>3 DEF IInv, BookInv
  <2> QED
    BY <1>1, <1>3, <2>1, <2>2 DEF StartRef, Resumed
<1> QED
  BY <1>2, <1>3

LEMMA PrepareBranchStep == ASSUME IInv, PrepareBranch PROVE IInv'
<1>1. /\ mode' = mode /\ text' = text /\ foreign' = foreign /\ remote' = remote
      /\ tracking' = tracking /\ pub' = pub /\ saved' = saved /\ abandoned' = abandoned
      /\ faults' = faults /\ pc = "fetched" /\ pc' = "tasks"
      /\ local' = StartRef /\ journal' = StartRef /\ tree' = Content(StartRef)
      /\ found' = OpenPrFound
  BY DEF PrepareBranch
<1>2. /\ StartRef \in AtHand /\ StartRef # None
      /\ saved.local # saved.pushed /\ ~abandoned => StartRef = saved.local
  BY Start DEF PrepareBranch
<1>3. StartRef \in History /\ Content(StartRef) \in Contents /\ Known(StartRef)
      /\ Content(StartRef) # None
  BY <1>2, Standing, GitPublishAssumption DEF AtHand, IInv, KnownInv
<1>4. force' \in BOOLEAN
  <2>1. pub.force \in BOOLEAN
    BY DEF IInv, BookType, Publication
  <2> QED
    BY <2>1 DEF PrepareBranch
<1>5. found' \in BOOLEAN
  BY <1>1 DEF OpenPrFound
<1>6. TextType' /\ RemoteType' /\ HeadType' /\ BookType' /\ RestType'
  BY <1>1, <1>3, <1>4, <1>5, Standing
     DEF IInv, TextType, Made, RemoteType, HeadType, BookType, RestType
<1>7. KnownInv'
  BY <1>1, <1>3 DEF IInv, KnownInv, Known, Made
<1>8. RunInv'
  BY <1>1, <1>2, <1>3 DEF RunInv, Running, Content
<1>9. OfferInv'
  BY <1>1 DEF IInv, OfferInv
<1>10. BookInv'
  BY <1>1, <1>2 DEF IInv, BookInv, Basis
<1> QED
  BY <1>6, <1>7, <1>8, <1>9, <1>10 DEF IInv

LEMMA PrepareDirectStep == ASSUME IInv, PrepareDirect PROVE IInv'
<1>1. /\ UNCHANGED <<mode, git>> /\ pc = "idle" /\ tree' = tree /\ tree = Content(local)
      /\ mode = "direct" /\ journal = None
      /\ journal' = local /\ pc' = "tasks" /\ pub' = pub /\ saved' = saved
      /\ abandoned' = abandoned /\ force' = force /\ found' = found /\ faults' = faults
  BY DEF PrepareDirect
<1>2. HeadType' /\ BookType' /\ RestType'
  BY <1>1, Still DEF IInv, HeadType, BookType, RestType
<1>3. RunInv'
  BY <1>1, Still DEF IInv, RunInv, Running
<1>4. OfferInv' /\ BookInv'
  BY <1>1, Still DEF IInv, OfferInv, BookInv, Basis
<1> QED
  BY <1>1, <1>2, <1>3, <1>4, Still DEF IInv

LEMMA PrepareFailsStep == ASSUME IInv, PrepareFails PROVE IInv'
<1>1. /\ mode' = mode /\ text' = text /\ foreign' = foreign /\ remote' = remote
      /\ tracking' = tracking /\ tree' = tree /\ pub' = pub /\ saved' = saved
      /\ force' = force /\ found' = found /\ journal' = journal /\ abandoned' = abandoned
      /\ pc = "fetched" /\ pc' = "idle" /\ journal = None /\ mode # "direct"
  BY DEF PrepareFails, IInv, RunInv
<1>2. faults' \in 0..MaxFaults
  BY GitPublishAssumption DEF PrepareFails, GhFails, GitFails, Fault, IInv, RestType
<1>3. local' = local \/ (local' = StartRef /\ StartRef # None)
  BY DEF PrepareFails
<1>4. /\ local' \in Branches /\ Known(local')
      /\ saved.local # saved.pushed /\ ~abandoned => saved.local = local'
  <2>1. CASE local' = local
    BY <1>1, <2>1 DEF IInv, HeadType, KnownInv, BookInv, Basis
  <2>2. CASE local' = StartRef /\ StartRef # None
    <3>1. OpenPrFound /\ ~Resumed => tracking.branch # None
      BY <2>2 DEF StartRef
    <3>2. StartRef \in AtHand
      BY DEF StartRef, Resumed, AtHand
    <3>3. StartRef \in History /\ Known(StartRef)
      BY <2>2, <3>2, Standing DEF AtHand, IInv, KnownInv
    <3>4. ASSUME saved.local # saved.pushed, ~abandoned
          PROVE  StartRef = saved.local
      <4>1. saved.local = local /\ saved.local # None /\ pub = saved
        BY <1>1, <3>4 DEF IInv, BookInv, Basis
      <4> QED
        BY <3>4, <4>1 DEF StartRef, Resumed
    <3> QED
      BY <2>2, <3>3, <3>4, Standing
  <2> QED
    BY <1>3, <2>1, <2>2
<1>5. TextType' /\ RemoteType' /\ HeadType' /\ BookType' /\ RestType'
  BY <1>1, <1>2, <1>4 DEF IInv, TextType, Made, RemoteType, HeadType, BookType, RestType
<1>6. KnownInv'
  BY <1>1, <1>4 DEF IInv, KnownInv, Known, Made
<1>7. RunInv' /\ OfferInv'
  BY <1>1 DEF IInv, RunInv, Running, OfferInv
<1>8. BookInv'
  BY <1>1, <1>4 DEF IInv, BookInv, Basis
<1> QED
  BY <1>5, <1>6, <1>7, <1>8 DEF IInv

-----------------------------------------------------------------------------
(* The snapshot and its publication *)

LEMMA StoreStep == ASSUME IInv, Store PROVE IInv'
<1>1. /\ UNCHANGED <<mode, git>> /\ pc = "tasks" /\ pc' = "commit"
      /\ tree' \in Contents \cup {tree} /\ (tree' # tree => Made < MaxCommits)
      /\ journal' = journal /\ pub' = pub /\ saved' = saved /\ journal = local
      /\ abandoned' = abandoned /\ force' = force /\ found' = found /\ faults' = faults
      /\ tree = Content(local) /\ tree # None /\ journal # None
  BY DEF Store, IInv, RunInv, Running
<1>2. tree' # None /\ tree' \in Contents \cup {None}
  BY <1>1, GitPublishAssumption DEF IInv, HeadType
<1>3. HeadType' /\ BookType' /\ RestType'
  BY <1>1, <1>2, Still DEF IInv, HeadType, BookType, RestType
<1>4. RunInv'
  BY <1>1, <1>2, Still DEF IInv, RunInv, Running
<1>5. OfferInv' /\ BookInv'
  BY <1>1, Still DEF IInv, OfferInv, BookInv, Basis
<1> QED
  BY <1>1, <1>3, <1>4, <1>5, Still DEF IInv

LEMMA CommitStep == ASSUME IInv, Commit PROVE IInv'
<1>1. /\ mode' = mode /\ foreign' = foreign /\ remote' = remote /\ tracking' = tracking
      /\ tree' = tree /\ saved' = saved /\ force' = force /\ found' = found
      /\ journal' = journal /\ abandoned' = abandoned /\ faults' = faults
      /\ pc = "commit" /\ pc' = "push" /\ pub' = Recorded(local')
      /\ journal = local /\ journal # None /\ local # None /\ tree # None
  BY DEF Commit, IInv, RunInv, Running
<1>2. local \in History /\ tree \in Contents
  BY <1>1, Standing DEF AtHand, IInv, HeadType
<1>3. /\ text' \in Seq(Contents) /\ Made' \in Nat /\ Made' <= MaxCommits
      /\ 1..Made \subseteq 1..Made'
      /\ local' \in History /\ Ids(local') \subseteq 1..Made' /\ Ids(local) \subseteq Ids(local')
      /\ tree = text'[Last(local')]
  <2>1. CASE tree = Content(local)
    <3>1. text' = text /\ local' = local
      BY <2>1 DEF Commit
    <3> QED
      BY <1>2, <2>1, <3>1, Standing DEF IInv, TextType, Made, KnownInv, Known, Content
  <2>2. CASE tree # Content(local)
    <3>1. NewCommit(tree) /\ local' = Append(local, Made + 1) /\ Made < MaxCommits
      BY <1>1, <2>2 DEF Commit, IInv, RunInv
    <3>2. /\ text' \in Seq(Contents) /\ Made' = Made + 1 /\ Made + 1 \in Commits
          /\ 1..Made \subseteq 1..Made' /\ Made + 1 \in 1..Made' /\ text'[Made + 1] = tree
      BY <1>2, <3>1, Committed
    <3>3. /\ local' \in History /\ Ids(local') = Ids(local) \cup {Made + 1}
          /\ Last(local') = Made + 1
      BY <1>2, <3>1, <3>2, Appended
    <3>4. Ids(local) \subseteq 1..Made
      BY DEF IInv, KnownInv, Known
    <3> QED
      BY <3>1, <3>2, <3>3, <3>4, Standing, GitPublishAssumption
  <2> QED
    BY <2>1, <2>2
<1>4. pub' = [pub EXCEPT !.local = local', !.url = found, !.force = force]
  BY <1>1 DEF Recorded
<1>5. pub' \in Publication /\ pub'.local = local' /\ pub'.pushed = pub.pushed
  BY <1>3, <1>4, Standing DEF IInv, BookType, RestType, Publication
<1>6. TextType' /\ RemoteType' /\ HeadType' /\ BookType' /\ RestType'
  BY <1>1, <1>3, <1>5, Standing DEF IInv, TextType, Made, RemoteType, HeadType, BookType, RestType
<1>7. KnownInv'
  BY <1>1, <1>3 DEF IInv, KnownInv, Known
<1>8. local' # None
  BY <1>3, Standing
<1>9. RunInv'
  BY <1>1, <1>3, <1>8 DEF IInv, RunInv, Running, Content
<1>10. OfferInv'
  BY <1>1 DEF IInv, OfferInv
<1>11. BookInv'
  BY <1>1, <1>5, <1>8 DEF IInv, BookInv, Basis
<1> QED
  BY <1>6, <1>7, <1>9, <1>10, <1>11 DEF IInv

LEMMA CommitFailsStep == ASSUME IInv, CommitFails PROVE IInv'
<1>1. /\ UNCHANGED <<mode, git>> /\ pc = "commit" /\ pc' = "failed" /\ tree' = tree
      /\ journal' = journal /\ pub' = pub /\ saved' = saved /\ journal = local
      /\ abandoned' = abandoned /\ force' = force /\ found' = found /\ pub = saved
  BY DEF CommitFails, IInv, RunInv, BookInv
<1>2. faults' \in 0..MaxFaults
  BY GitPublishAssumption DEF CommitFails, GitFails, Fault, IInv, RestType
<1>3. HeadType' /\ BookType' /\ RestType'
  BY <1>1, <1>2, Still DEF IInv, HeadType, BookType, RestType
<1>4. RunInv'
  BY <1>1, Still DEF IInv, RunInv, Running
<1>5. OfferInv'
  BY <1>1, Still DEF IInv, OfferInv
<1>6. BookInv'
  BY <1>1, Still DEF IInv, BookInv, Basis
<1> QED
  BY <1>1, <1>3, <1>4, <1>5, <1>6, Still DEF IInv

LEMMA PushStep == ASSUME IInv, Push PROVE IInv'
<1>1. /\ mode' = mode /\ text' = text /\ foreign' = foreign /\ local' = local
      /\ tree' = tree /\ saved' = saved /\ force' = force /\ found' = found
      /\ journal' = journal /\ abandoned' = abandoned /\ faults' = faults
      /\ pc = "push" /\ pc' \in {"pr", "done"} /\ pub.local = local
      /\ remote' = [remote EXCEPT !.branch = local]
      /\ tracking' = [tracking EXCEPT !.branch = local]
      /\ pub' = [pub EXCEPT !.pushed = pub.local]
  BY DEF Push, Arrive, IInv, BookInv
<1>2. local # None /\ local \in History
  BY <1>1, Standing DEF AtHand, IInv, RunInv, Running
<1>3. /\ remote'.base = remote.base /\ remote'.branch = local
      /\ tracking'.base = tracking.base /\ tracking'.branch = local
      /\ remote' \in [base : History, branch : Branches, pr : BOOLEAN]
      /\ tracking' \in [base : History, branch : Branches]
  BY <1>1, <1>2, Standing DEF IInv, RemoteType
<1>4. pub' \in Publication /\ pub'.local = local /\ pub'.pushed = local
  BY <1>1, <1>2, Standing DEF IInv, BookType, Publication
<1>5. TextType' /\ RemoteType' /\ HeadType' /\ BookType' /\ RestType'
  BY <1>1, <1>3, <1>4 DEF IInv, TextType, Made, RemoteType, HeadType, BookType, RestType
<1>6. KnownInv'
  BY <1>1, <1>3 DEF IInv, KnownInv, Known, Made
<1>7. RunInv'
  BY <1>1 DEF IInv, RunInv, Running, Content
<1>8. OfferInv'
  BY <1>1, <1>2, <1>3, Prefixed DEF OfferInv
<1>9. BookInv'
  BY <1>1, <1>2, <1>4 DEF IInv, BookInv, Basis
<1> QED
  BY <1>5, <1>6, <1>7, <1>8, <1>9 DEF IInv

LEMMA PushFailsStep == ASSUME IInv, PushFails PROVE IInv'
<1>1. /\ mode' = mode /\ text' = text /\ foreign' = foreign /\ local' = local
      /\ tracking' = tracking /\ pub' = pub
      /\ tree' = tree /\ saved' = saved /\ force' = force /\ found' = found
      /\ journal' = journal /\ abandoned' = abandoned
      /\ pc = "push" /\ pc' = "failed" /\ pub.local = local
      /\ remote' = remote \/ remote' = [remote EXCEPT !.branch = local]
  BY DEF PushFails, Arrive, git, IInv, BookInv
<1>2. faults' \in 0..MaxFaults
  BY GitPublishAssumption DEF PushFails, GitFails, Fault, IInv, RestType
<1>3. local # None /\ local \in History
  BY <1>1, Standing DEF AtHand, IInv, RunInv, Running
<1>4. /\ remote'.base = remote.base /\ remote'.branch \in {remote.branch, local}
      /\ remote'.branch = None => remote' = remote
      /\ remote' \in [base : History, branch : Branches, pr : BOOLEAN]
  BY <1>1, <1>3, Standing DEF IInv, RemoteType
<1>5. TextType' /\ RemoteType' /\ HeadType' /\ BookType' /\ RestType'
  BY <1>1, <1>2, <1>4 DEF IInv, TextType, Made, RemoteType, HeadType, BookType, RestType
<1>6. KnownInv'
  BY <1>1, <1>4 DEF IInv, KnownInv, Known, Made
<1>7. RunInv'
  BY <1>1 DEF IInv, RunInv, Running, Content
<1>8. OfferInv'
  BY <1>1, <1>4 DEF IInv, OfferInv
<1>9. BookInv'
  BY <1>1 DEF IInv, BookInv, Basis
<1> QED
  BY <1>5, <1>6, <1>7, <1>8, <1>9 DEF IInv

LEMMA EnsurePrStep == ASSUME IInv, EnsurePr PROVE IInv'
<1>1. /\ mode' = mode /\ text' = text /\ foreign' = foreign /\ local' = local
      /\ tracking' = tracking /\ faults' = faults
      /\ tree' = tree /\ saved' = saved /\ force' = force /\ found' = found
      /\ journal' = journal /\ abandoned' = abandoned
      /\ pc = "pr" /\ pc' = "done" /\ pub.local = local
      /\ remote' = [remote EXCEPT !.pr = TRUE] /\ pub' = [pub EXCEPT !.url = TRUE]
      /\ remote.branch # None
  BY DEF EnsurePr, Creatable, IInv, BookInv, OfferInv
<1>2. /\ remote'.base = remote.base /\ remote'.branch = remote.branch
      /\ remote' \in [base : History, branch : Branches, pr : BOOLEAN]
  BY <1>1 DEF IInv, RemoteType
<1>3. pub' \in Publication /\ pub'.local = pub.local /\ pub'.pushed = pub.pushed
  BY <1>1 DEF IInv, BookType, Publication
<1>4. TextType' /\ RemoteType' /\ HeadType' /\ BookType' /\ RestType'
  BY <1>1, <1>2, <1>3 DEF IInv, TextType, Made, RemoteType, HeadType, BookType, RestType
<1>5. KnownInv'
  BY <1>1, <1>2 DEF IInv, KnownInv, Known, Made
<1>6. RunInv'
  BY <1>1 DEF IInv, RunInv, Running, Content
<1>7. OfferInv'
  BY <1>1, <1>2 DEF OfferInv
<1>8. BookInv'
  BY <1>1, <1>3 DEF IInv, BookInv, Basis
<1> QED
  BY <1>4, <1>5, <1>6, <1>7, <1>8 DEF IInv

LEMMA EnsurePrFailsStep == ASSUME IInv, EnsurePrFails PROVE IInv'
<1>1. /\ mode' = mode /\ text' = text /\ foreign' = foreign /\ local' = local
      /\ tracking' = tracking /\ pub' = pub
      /\ tree' = tree /\ saved' = saved /\ force' = force /\ found' = found
      /\ journal' = journal /\ abandoned' = abandoned
      /\ pc = "pr" /\ pc' = "failed" /\ pub.local = local
      /\ remote' = remote \/ (remote' = [remote EXCEPT !.pr = TRUE] /\ Creatable)
  BY DEF EnsurePrFails, IInv, BookInv
<1>2. faults' \in 0..MaxFaults
  BY GitPublishAssumption DEF EnsurePrFails, GhFails, Fault, IInv, RestType
<1>3. /\ remote'.base = remote.base /\ remote'.branch = remote.branch
      /\ remote' = remote \/ remote.branch # None
      /\ remote' \in [base : History, branch : Branches, pr : BOOLEAN]
  BY <1>1 DEF IInv, RemoteType, Creatable
<1>4. TextType' /\ RemoteType' /\ HeadType' /\ BookType' /\ RestType'
  BY <1>1, <1>2, <1>3 DEF IInv, TextType, Made, RemoteType, HeadType, BookType, RestType
<1>5. KnownInv'
  BY <1>1, <1>3 DEF IInv, KnownInv, Known, Made
<1>6. RunInv'
  BY <1>1 DEF IInv, RunInv, Running, Content
<1>7. OfferInv'
  BY <1>1, <1>3 DEF IInv, OfferInv
<1>8. BookInv'
  BY <1>1 DEF IInv, BookInv, Basis
<1> QED
  BY <1>4, <1>5, <1>6, <1>7, <1>8 DEF IInv

-----------------------------------------------------------------------------
(* The end of a run *)

LEMMA FinishStep == ASSUME IInv, Finish PROVE IInv'
<1>1. /\ UNCHANGED <<mode, git>> /\ pc \in {"done", "failed"} /\ pc' = "idle"
      /\ tree' = Discarded(Content(local)) /\ journal' = None /\ faults' = faults
      /\ pub' = [pub EXCEPT !.pending = (pc = "failed")] /\ saved' = pub'
      /\ force' = FALSE /\ found' = FALSE /\ abandoned' = (abandoned /\ pub.local # local)
  BY DEF Finish, RolledBack
<1>2. pub' \in Publication /\ pub'.local = pub.local /\ pub'.pushed = pub.pushed
  BY <1>1 DEF IInv, BookType, Publication
<1>3. local # None /\ Content(local) \in Contents
  BY <1>1, Standing DEF AtHand, IInv, RunInv, Running
<1>4. tree' \in Contents \cup {None} /\ (mode = "direct" => tree' # None)
  BY <1>1, <1>3, GitPublishAssumption DEF Discarded
<1>5. HeadType' /\ BookType' /\ RestType'
  BY <1>1, <1>2, <1>4, Still, Standing DEF IInv, HeadType, BookType, RestType
<1>6. RunInv'
  BY <1>1, <1>3, <1>4, Still DEF RunInv, Running
<1>7. OfferInv'
  BY <1>1, Still DEF IInv, OfferInv
<1>8. pub.local = local \/ (pub = saved /\ journal = local /\ journal # None)
  BY <1>1 DEF IInv, BookInv, RunInv, Running
<1>9. pub.local # pub.pushed /\ ~abandoned' => pub.local = local
  BY <1>1, <1>8 DEF IInv, BookInv, Basis
<1>10. BookInv'
  BY <1>1, <1>2, <1>9, Still DEF IInv, BookInv, Basis
<1> QED
  BY <1>1, <1>5, <1>6, <1>7, <1>10, Still DEF IInv

LEMMA CrashStep == ASSUME IInv, Crash PROVE IInv'
<1>1. /\ UNCHANGED <<mode, git>> /\ Running /\ pc' = "idle"
      /\ tree' = Discarded(tree) /\ journal' = journal /\ pub' = saved /\ saved' = saved
      /\ force' = FALSE /\ found' = FALSE /\ abandoned' = abandoned
  BY DEF Crash, Running
<1>2. faults' \in 0..MaxFaults
  BY GitPublishAssumption DEF Crash, Fault, IInv, RestType
<1>3. tree # None /\ tree \in Contents
  BY <1>1 DEF IInv, RunInv, HeadType
<1>4. tree' \in Contents \cup {None} /\ (mode = "direct" => tree' # None)
  BY <1>1, <1>3 DEF Discarded
<1>5. HeadType' /\ BookType' /\ RestType'
  BY <1>1, <1>2, <1>4, Still DEF IInv, HeadType, BookType, RestType
<1>6. RunInv'
  BY <1>1, <1>4, Still DEF IInv, RunInv, Running
<1>7. OfferInv' /\ BookInv'
  BY <1>1, Still DEF IInv, OfferInv, BookInv, Basis
<1> QED
  BY <1>1, <1>5, <1>6, <1>7, Still DEF IInv

-----------------------------------------------------------------------------
(* Invariance, and what follows *)

LEMMA InitIInv == Init => IInv
<1> SUFFICES ASSUME Init PROVE IInv
  OBVIOUS
<1> DEFINE one == <<1>>
<1>1. one \in History /\ one # None /\ Ids(one) = {1} /\ Last(one) = 1
  <2>1. one \in History
    BY GitPublishAssumption DEF History, Commits
  <2> QED
    BY <2>1, Empty DEF Ids, Last
<1> HIDE DEF one
<1>2. /\ mode \in Modes /\ text = <<First>> /\ foreign = {}
      /\ remote = [base |-> one, branch |-> None, pr |-> FALSE]
      /\ tracking = [base |-> one, branch |-> None]
      /\ local = (IF mode = "direct" THEN one ELSE None)
      /\ tree = (IF mode = "direct" THEN First ELSE None)
      /\ pub = [local |-> None, pushed |-> None, url |-> FALSE, force |-> FALSE,
                pending |-> FALSE]
      /\ saved = pub /\ journal = None /\ pc = "idle" /\ force = FALSE /\ found = FALSE
      /\ abandoned = FALSE /\ faults = 0
  BY DEF Init, one
<1>3. Made = 1 /\ text \in Seq(Contents) /\ First # None
  BY <1>2, GitPublishAssumption DEF Made
<1>4. TextType
  BY <1>2, <1>3, GitPublishAssumption DEF TextType
<1>5. History \subseteq Branches /\ None \in Branches
  BY DEF Branches
<1>6. RemoteType /\ HeadType
  BY <1>1, <1>2, <1>5, GitPublishAssumption DEF RemoteType, HeadType
<1>7. BookType
  BY <1>2, <1>5 DEF BookType, Publication
<1>8. RestType
  <2>1. faults \in 0..MaxFaults
    BY <1>2, GitPublishAssumption
  <2> QED
    BY <1>2, <2>1 DEF RestType
<1>9. KnownInv
  BY <1>1, <1>2, <1>3, Empty DEF KnownInv, Known
<1>10. RunInv /\ OfferInv
  BY <1>1, <1>2, <1>3 DEF RunInv, Running, OfferInv
<1>11. BookInv
  BY <1>2 DEF BookInv
<1> QED
  BY <1>4, <1>6, <1>7, <1>8, <1>9, <1>10, <1>11 DEF IInv

LEMMA NextIInv == IInv /\ [Next]_vars => IInv'
<1> SUFFICES ASSUME IInv, [Next]_vars PROVE IInv'
  OBVIOUS
<1>1. CASE Engine
  BY <1>1, RecoverStep, FetchStep, PrepareBranchStep, PrepareDirectStep, PrepareFailsStep,
     StoreStep, CommitStep, CommitFailsStep, PushStep, PushFailsStep, EnsurePrStep,
     EnsurePrFailsStep, FinishStep DEF Engine
<1>2. CASE Environment
  BY <1>2, PushElsewhereStep, OpenPrStep, MergePrStep, ClosePrStep, DeleteBranchStep,
     ResetJournalStep, CleanCheckoutStep, CrashStep DEF Environment
<1>3. CASE UNCHANGED vars
  <2>1. UNCHANGED <<mode, git>> /\ UNCHANGED <<tree, pub, saved, run, faults>>
    BY <1>3 DEF vars
  <2>2. HeadType' /\ BookType' /\ RestType'
    BY <2>1 DEF IInv, HeadType, BookType, RestType, run, git
  <2>3. RunInv' /\ OfferInv' /\ BookInv'
    BY <2>1, Still DEF IInv, RunInv, Running, OfferInv, BookInv, Basis, run
  <2> QED
    BY <2>1, <2>2, <2>3, Still DEF IInv
<1> QED
  BY <1>1, <1>2, <1>3 DEF Next

\* IInv holds in every reachable state.
THEOREM Invariance == Spec => []IInv
BY InitIInv, NextIInv, PTL DEF Spec

\* An unpublished commit stays on the local branch, over the domains of all
\* variables.
THEOREM CommitsAreKept == Spec => []WorkKept
<1>1. IInv => TypeOK
  BY DEF IInv, TextType, RemoteType, HeadType, BookType, RestType, RunInv, TypeOK
<1>2. IInv => UnpublishedKept
  <2> SUFFICES ASSUME IInv, saved.local # saved.pushed, ~abandoned
               PROVE  local # None /\ Ids(saved.local) \subseteq Ids(local)
    BY DEF UnpublishedKept
  <2>1. saved.local = Basis /\ saved.local # None
    BY DEF IInv, BookInv
  <2> QED
    BY <2>1 DEF Basis, IInv, RunInv
<1>3. IInv => WorkKept
  BY <1>1, <1>2 DEF WorkKept
<1> QED
  BY <1>3, Invariance, PTL

\* A push removes nothing from the branch that the run has not fetched.
THEOREM NothingUnseenIsLost == Spec => NothingUnseenOverwritten
<1> DEFINE Seen == pc = "push" /\ remote'.branch # None =>
               Ids(remote.branch) \ Ids(remote'.branch) \subseteq Ids(tracking.branch)
<1>1. IInv /\ [Next]_vars => [Seen]_vars
  <2> SUFFICES ASSUME IInv, Next, pc = "push", remote'.branch # None
               PROVE  Ids(remote.branch) \ Ids(remote'.branch) \subseteq Ids(tracking.branch)
    OBVIOUS
  <2>1. Push \/ PushFails \/ Environment
    BY DEF Next, Engine, Recover, Fetch, PrepareBranch, PrepareDirect, PrepareFails, Store,
           Commit, CommitFails, EnsurePr, EnsurePrFails, Finish
  <2>2. CASE remote' = remote
    BY <2>2
  <2>3. CASE Accepted /\ Arrive
    <3>1. remote'.branch = local /\ local \in History
      BY <2>3, Standing DEF Arrive, IInv, RemoteType, RunInv, Running, AtHand
    <3>2. CASE force
      BY <2>3, <3>2 DEF Accepted
    <3>3. CASE ~force /\ remote.branch # None
      BY <2>3, <3>1, <3>3, Prefixed, Standing DEF Accepted, Branches
    <3>4. CASE remote.branch = None
      BY <3>4, Empty
    <3> QED
      BY <3>2, <3>3, <3>4
  <2>4. CASE PushElsewhere
    <3>1. \/ remote'.branch = remote.branch
          \/ remote.branch = None
          \/ /\ remote.branch # None /\ Made + 1 < MaxCommits
             /\ remote'.branch = Append(remote.branch, Made + 1)
      BY <2>4 DEF PushElsewhere, TheirCommit, IInv, RemoteType
    <3>2. CASE remote.branch # None /\ Made + 1 < MaxCommits
               /\ remote'.branch = Append(remote.branch, Made + 1)
      <4>1. Made + 1 \in Commits /\ remote.branch \in History
        BY <3>2, Standing, GitPublishAssumption DEF Commits, AtHand
      <4> QED
        BY <3>2, <4>1, Appended
    <3> QED
      BY <3>1, <3>2, Empty
  <2>5. CASE OpenPr \/ MergePr \/ ClosePr \/ DeleteBranch
    <3>1. remote'.branch = remote.branch
      BY <2>5 DEF OpenPr, MergePr, ClosePr, DeleteBranch, IInv, RemoteType
    <3> QED
      BY <3>1
  <2> QED
    BY <2>1, <2>2, <2>3, <2>4, <2>5
       DEF Push, PushFails, git, Environment, ResetJournal, CleanCheckout, Crash
<1> QED
  BY <1>1, Invariance, PTL DEF Spec, NothingUnseenOverwritten

\* What counts as published is on the branch and, where there are pull
\* requests, in an open one.
THEOREM PublishedIsOffered == Spec => PublishedMeansOffered
<1> DEFINE Offered ==
        pc # "done" /\ pc' = "done" =>
         /\ tree = Content(local)
         /\ remote'.branch # None /\ IsPrefix(local, remote'.branch)
         /\ mode = "pull_request" => remote'.pr
<1>1. IInv /\ [Next]_vars => [Offered]_vars
  <2> SUFFICES ASSUME IInv, Next, pc # "done", pc' = "done"
               PROVE  Offered
    OBVIOUS
  <2>1. Push \/ EnsurePr
    BY DEF Next, Engine, Recover, Fetch, PrepareBranch, PrepareDirect, PrepareFails, Store,
           Commit, CommitFails, PushFails, EnsurePrFails, Finish,
           Environment, PushElsewhere, OpenPr, MergePr, ClosePr, DeleteBranch, ResetJournal,
           CleanCheckout, Crash, Others, run
  <2>2. pc \in {"push", "pr"} /\ local # None /\ local \in History /\ tree = Content(local)
    BY <2>1, Standing DEF Push, EnsurePr, IInv, RunInv, Running, AtHand
  <2>3. CASE Push
    <3>1. remote'.branch = local /\ mode # "pull_request"
      BY <2>3 DEF Push, Arrive, IInv, RemoteType
    <3> QED
      BY <2>2, <3>1, Prefixed
  <2>4. CASE EnsurePr
    <3>1. remote'.branch = remote.branch /\ remote'.pr /\ remote.branch # None
      BY <2>4 DEF EnsurePr, Creatable, IInv, RemoteType, OfferInv
    <3>2. IsPrefix(local, remote.branch)
      BY <2>4, <3>1 DEF EnsurePr, IInv, OfferInv
    <3> QED
      BY <2>2, <3>1, <3>2
  <2> QED
    BY <2>1, <2>3, <2>4
<1> QED
  BY <1>1, Invariance, PTL DEF Spec, PublishedMeansOffered
=============================================================================

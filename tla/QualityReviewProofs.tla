------------------------- MODULE QualityReviewProofs -------------------------
(* ReviewsAreGated for every number of revisions, workflow runs, re-runs and *)
(* caller runs, under QualityAssumption.                                     *)
EXTENDS QualityReview, TLAPS

(* The inductive invariant *)

\* Every revision has runs of both workflows and a newest one of each: the
\* maximum that LatestRun takes exists.
NewestExists ==
  \A name \in Workflows, h \in 1..tip :
    \E i \in IdsOf(name, h) : \A j \in IdsOf(name, h) : i >= j

\* A run that shows success has succeeded.
FlowsRecorded ==
  \A i \in DOMAIN flows :
    /\ flows[i].head \in 1..tip
    /\ flows[i].state = "success" => <<flows[i].name, flows[i].head>> \in succeeded

\* The label approves the revision it is on, and own branches carry none.
LabelRecorded == tagged => ~own /\ tip \in taggedTips

\* What a caller run has read, and its target, match its own head or label.
FindingsHold(c) ==
  /\ c.head \in 1..tip
  /\ c.ci => <<"ci", c.head>> \in succeeded
  /\ c.compliance => <<"compliance", c.head>> \in succeeded
  /\ c.approved => c.target \in taggedTips
  /\ c.pc \in {"pending", "list", "refresh"} => ~c.approved
  /\ own => c.pc # "refresh"
  /\ own /\ c.pc \in {"ci", "compliance", "route", "review"} => c.target = c.head
  /\ c.pc \in {"ci", "compliance", "route", "review"} => c.target \in Tips

CallersHonest == \A q \in DOMAIN callers : FindingsHold(callers[q])

\* The group of a head has one caller run in progress.
OnePerHead ==
  \A q, r \in DOMAIN callers :
    /\ InProgress(callers[q]) /\ InProgress(callers[r])
    /\ callers[q].head = callers[r].head
    => q = r

QualityInv ==
  /\ QualityTypeOK /\ NewestExists /\ FlowsRecorded /\ LabelRecorded
  /\ CallersHonest /\ OnePerHead /\ OwnReviewIsGated /\ LabelIsOfReviewedHead

-----------------------------------------------------------------------------
\* The newest run of a workflow for a revision that exists is one of its runs.
LEMMA LatestIsRun ==
  ASSUME QualityTypeOK, NewestExists, NEW name \in Workflows, NEW h \in 1..tip
  PROVE  Max(IdsOf(name, h)) \in IdsOf(name, h)
PROOF BY DEF NewestExists, Max

\* A newest run that succeeded was recorded.
LEMMA LatestIsRecorded ==
  ASSUME QualityTypeOK, NewestExists, FlowsRecorded,
         NEW name \in Workflows, NEW h \in 1..tip,
         LatestRun(name, h).state = "success"
  PROVE  <<name, h>> \in succeeded
PROOF BY LatestIsRun DEF IdsOf, LatestRun, FlowsRecorded

-----------------------------------------------------------------------------
(* The initial states *)

\* The invariant holds on a new pull request.
LEMMA InitEstablishes == QualityInit => QualityInv
<1> SUFFICES ASSUME QualityInit PROVE QualityInv
  OBVIOUS
<1> USE QualityAssumption
    DEF QualityInit, QualityAssumption, NewFlow, Workflows, Tips
<1>1. /\ DOMAIN flows = {1, 2} /\ DOMAIN callers = {}
      /\ flows[1] = NewFlow("ci", 1) /\ flows[2] = NewFlow("compliance", 1)
  OBVIOUS
<1>2. QualityTypeOK
  <2>1. flows \in Seq(Flow) /\ Len(flows) = 2
    BY DEF Flow
  <2>2. callers \in Seq(Caller) /\ Len(callers) = 0
    OBVIOUS
  <2>3. MaxReruns \in Nat /\ MaxCallers \in Nat /\ 1 \in 1..MaxTip /\ 2 <= MaxFlows
    OBVIOUS
  <2>4. tip \in Tips /\ reruns \in 0..MaxReruns
    BY <2>3
  <2>6. own \in BOOLEAN /\ tagged \in BOOLEAN
    BY Zenon
  <2>5. taggedTips \subseteq Tips /\ succeeded \subseteq Workflows \X Tips /\ started \subseteq Tips
    OBVIOUS
  <2> QED BY ONLY <2>1, <2>2, <2>3, <2>4, <2>5, <2>6, MaxFlows \in Nat DEF QualityTypeOK
<1>3. NewestExists
  <2>1. IdsOf("ci", 1) = {1} /\ IdsOf("compliance", 1) = {2}
    BY <1>1 DEF IdsOf
  <2> QED BY <2>1, SMTT(20) DEF NewestExists
<1> QED
  BY <1>1, <1>2, <1>3
     DEF QualityInv, FlowsRecorded, LabelRecorded, CallersHonest, OnePerHead,
         OwnReviewIsGated, LabelIsOfReviewedHead

-----------------------------------------------------------------------------
(* The pull request and the two workflows *)

\* Nothing a caller has found is taken back while the pull request goes on.
LEMMA FindingsStay ==
  ASSUME QualityTypeOK, NEW c \in Caller, FindingsHold(c), own' = own,
         tip' \in Tips, tip' >= tip, succeeded \subseteq succeeded',
         taggedTips \subseteq taggedTips'
  PROVE  FindingsHold(c)'
BY DEF FindingsHold, QualityTypeOK, Tips, Caller

\* A step that adds no caller run keeps what the caller runs have found.
LEMMA CallersStay ==
  ASSUME QualityInv, QualityTypeOK', own' = own, tip' >= tip,
         succeeded \subseteq succeeded', taggedTips \subseteq taggedTips',
         UNCHANGED <<callers, started>>
  PROVE  CallersHonest' /\ OnePerHead' /\ OwnReviewIsGated' /\ LabelIsOfReviewedHead'
<1>1. CallersHonest'
  BY FindingsStay DEF CallersHonest, QualityInv, QualityTypeOK
<1>2. OnePerHead'
  BY DEF OnePerHead, QualityInv
<1> QED
  BY <1>1, <1>2 DEF OwnReviewIsGated, LabelIsOfReviewedHead, QualityInv

\* A new run of a workflow for a revision that has one is its newest.
LEMMA AppendKeepsNewest ==
  ASSUME QualityTypeOK, NewestExists, FlowsRecorded, tip' = tip,
         succeeded' = succeeded, NEW w \in Workflows,
         flows' = Append(flows, NewFlow(w, tip))
  PROVE  NewestExists' /\ FlowsRecorded'
<1> DEFINE n == Len(flows) + 1
<1>1. /\ n \in Nat /\ DOMAIN flows = 1..(n - 1) /\ DOMAIN flows' = 1..n
      /\ \A i \in 1..(n - 1) : flows'[i] = flows[i]
      /\ flows'[n] = NewFlow(w, tip)
  BY DEF QualityTypeOK
<1>2. ASSUME NEW name \in Workflows, NEW h \in 1..tip
      PROVE  \E i \in IdsOf(name, h)' : \A j \in IdsOf(name, h)' : i >= j
  <2>1. CASE name = w /\ h = tip
    <3>1. n \in IdsOf(name, h)'
      BY <1>1, <2>1 DEF IdsOf, NewFlow
    <3>2. \A j \in IdsOf(name, h)' : n >= j
      BY <1>1 DEF IdsOf
    <3> QED BY <3>1, <3>2
  <2>2. CASE ~(name = w /\ h = tip)
    <3>1. IdsOf(name, h)' = IdsOf(name, h)
      BY <1>1, <2>2 DEF IdsOf, NewFlow
    <3> QED BY <3>1 DEF NewestExists
  <2> QED BY <2>1, <2>2
<1>3. FlowsRecorded'
  BY <1>1 DEF FlowsRecorded, NewFlow, QualityTypeOK, Tips
<1> QED BY <1>2, <1>3 DEF NewestExists

\* A pushed revision has a new run of each workflow.
LEMMA PushKeeps ==
  ASSUME QualityInv, PushRevision
  PROVE  QualityInv'
<1> USE QualityAssumption DEF QualityAssumption, PushRevision
<1> DEFINE n == Len(flows)
<1>0. QualityTypeOK
  BY DEF QualityInv
<1>1. /\ n \in Nat /\ DOMAIN flows = 1..n /\ DOMAIN flows' = 1..(n + 2)
      /\ \A i \in 1..n : flows'[i] = flows[i]
      /\ flows'[n + 1] = NewFlow("ci", tip + 1)
      /\ flows'[n + 2] = NewFlow("compliance", tip + 1)
  BY <1>0 DEF QualityTypeOK
<1>2. QualityTypeOK'
  <2>1. NewFlow("ci", tip + 1) \in Flow /\ NewFlow("compliance", tip + 1) \in Flow
    BY <1>0 DEF QualityTypeOK, Flow, NewFlow, Tips, Workflows
  <2>2. flows' \in Seq(Flow) /\ Len(flows') = n + 2
    BY <1>0, <2>1 DEF QualityTypeOK
  <2> QED BY <1>0, <2>2 DEF QualityTypeOK, Tips
<1>3. ASSUME NEW name \in Workflows, NEW h \in 1..(tip + 1)
      PROVE  \E i \in IdsOf(name, h)' : \A j \in IdsOf(name, h)' : i >= j
  <2>1. CASE h = tip + 1
    <3>1. ASSUME NEW i \in 1..n PROVE flows'[i].head # h
      <4>1. flows[i].head \in 1..tip
        BY <1>1 DEF QualityInv, FlowsRecorded
      <4> QED BY <1>0, <1>1, <2>1, <4>1 DEF QualityTypeOK, Tips
    <3>2. IdsOf(name, h)' \subseteq {n + 1, n + 2}
      <4> SUFFICES ASSUME NEW i \in 1..(n + 2), flows'[i].head = h
                   PROVE  i \in {n + 1, n + 2}
        BY <1>1 DEF IdsOf
      <4> QED BY <1>1, <3>1
    <3>3. IdsOf(name, h)' = IF name = "ci" THEN {n + 1} ELSE {n + 2}
      BY <1>1, <2>1, <3>2, SMTT(20) DEF IdsOf, NewFlow, Workflows
    <3> QED BY <1>1, <3>3
  <2>2. CASE h # tip + 1
    <3>1. IdsOf(name, h)' = IdsOf(name, h)
      BY <1>1, <2>2, SMTT(20) DEF IdsOf, NewFlow
    <3>2. h \in 1..tip
      BY <1>0, <2>2 DEF QualityTypeOK, Tips
    <3> QED BY <3>1, <3>2 DEF NewestExists, QualityInv
  <2> QED BY <2>1, <2>2
<1>4. NewestExists'
  BY <1>3 DEF NewestExists
<1>5. FlowsRecorded'
  BY <1>0, <1>1, SMTT(20) DEF QualityInv, FlowsRecorded, NewFlow, QualityTypeOK, Tips
<1>6. LabelRecorded'
  BY DEF QualityInv, LabelRecorded
<1>7. CallersHonest' /\ OnePerHead' /\ OwnReviewIsGated' /\ LabelIsOfReviewedHead'
  BY <1>0, <1>2, CallersStay DEF QualityTypeOK, Tips
<1> QED BY <1>2, <1>4, <1>5, <1>6, <1>7 DEF QualityInv

\* An edit or a label starts a compliance run of the current revision.
LEMMA EditKeeps ==
  ASSUME QualityInv, EditText \/ ApplyLabel
  PROVE  QualityInv'
<1> USE QualityAssumption DEF QualityAssumption, EditText, ApplyLabel
<1>0. QualityTypeOK
  BY DEF QualityInv
<1>1. flows' = Append(flows, NewFlow("compliance", tip)) /\ Len(flows) < MaxFlows
  OBVIOUS
<1>2. QualityTypeOK'
  <2>1. NewFlow("compliance", tip) \in Flow
    BY <1>0 DEF QualityTypeOK, Flow, NewFlow, Workflows
  <2>2. flows' \in Seq(Flow) /\ Len(flows') <= MaxFlows
    BY <1>0, <1>1, <2>1 DEF QualityTypeOK
  <2> QED BY <1>0, <2>2 DEF QualityTypeOK
<1>3. NewestExists' /\ FlowsRecorded'
  BY <1>0, <1>1, AppendKeepsNewest DEF QualityInv, Workflows
<1>4. LabelRecorded'
  <2>1. CASE EditText
    BY <2>1, Zenon DEF QualityInv, LabelRecorded
  <2>2. CASE ApplyLabel
    BY <2>2, Zenon DEF QualityInv, LabelRecorded
  <2> QED BY <2>1, <2>2
<1>5. CallersHonest' /\ OnePerHead' /\ OwnReviewIsGated' /\ LabelIsOfReviewedHead'
  BY <1>0, <1>2, CallersStay DEF QualityTypeOK, Tips
<1> QED BY <1>2, <1>3, <1>4, <1>5 DEF QualityInv

\* A label that is taken off approves nothing more.
LEMMA TakeOffKeeps ==
  ASSUME QualityInv, TakeLabelOff
  PROVE  QualityInv'
<1> USE DEF TakeLabelOff
<1>1. QualityTypeOK'
  BY DEF QualityInv, QualityTypeOK
<1>2. NewestExists' /\ FlowsRecorded' /\ LabelRecorded'
  BY DEF QualityInv, NewestExists, IdsOf, FlowsRecorded, LabelRecorded
<1>3. CallersHonest' /\ OnePerHead' /\ OwnReviewIsGated' /\ LabelIsOfReviewedHead'
  BY <1>1, CallersStay DEF QualityInv, QualityTypeOK, Tips
<1> QED BY <1>1, <1>2, <1>3 DEF QualityInv

\* A new caller run, and one that is over, have found nothing.
LEMMA FreshCaller ==
  ASSUME QualityTypeOK, NEW h \in 1..tip, NEW c \in {NewCaller(h), Over(h)}
  PROVE  c \in Caller /\ c.head = h /\ FindingsHold(c) /\ ~InProgress(c)
<1>1. h \in Tips /\ 0 \in 0..MaxTip
  BY QualityAssumption DEF QualityTypeOK, QualityAssumption, Tips
<1>2. NewCaller(h) \in Caller
  BY <1>1, SMT DEF NewCaller, Caller
<1>3. Over(h) \in Caller
  BY <1>2, SMT DEF Over, Caller
<1>4. /\ c.head = h /\ c.pc \in {"pending", "ended"}
      /\ ~c.ci /\ ~c.compliance /\ ~c.approved
  BY DEF Over, NewCaller
<1>5. FindingsHold(c) /\ ~InProgress(c)
  BY <1>4 DEF FindingsHold, InProgress
<1> QED BY <1>2, <1>3, <1>4, <1>5

\* The caller run that a completed run starts, beside those it replaces,
\* cancels or leaves alone.
LEMMA StartKeepsCallers ==
  ASSUME QualityTypeOK, CallersHonest, OnePerHead, NEW h \in 1..tip,
         StartCallerFor(h), Len(callers) < MaxCallers
  PROVE  /\ callers' \in Seq(Caller) /\ Len(callers') <= MaxCallers
         /\ \A q \in DOMAIN callers' : FindingsHold(callers'[q])
         /\ OnePerHead'
<1> DEFINE n    == Len(callers)
           k(c) == IF c.head # h THEN c
                   ELSE IF c.pc = "pending" THEN Over(h)
                   ELSE IF InProgress(c) THEN [c EXCEPT !.cancelled = TRUE]
                   ELSE c
<1>1. /\ n \in Nat /\ DOMAIN callers = 1..n /\ h \in Tips
      /\ MaxCallers \in Nat /\ 0 \in 0..MaxTip
      /\ \A q \in 1..n : callers[q] \in Caller
  BY QualityAssumption DEF QualityTypeOK, QualityAssumption, Tips
<1>2. ASSUME NEW c \in Caller, FindingsHold(c)
      PROVE  /\ k(c) \in Caller /\ FindingsHold(k(c)) /\ k(c).head = c.head
             /\ InProgress(k(c)) => InProgress(c)
  <2>1. CASE k(c) = c
    BY <1>2, <2>1
  <2>2. CASE c.head = h /\ k(c) = Over(h)
    BY <2>2, FreshCaller
  <2>3. CASE InProgress(c) /\ k(c) = [c EXCEPT !.cancelled = TRUE]
    BY <1>2, <2>3, ZenonT(40) DEF Caller, FindingsHold, InProgress
  <2> QED BY <2>1, <2>2, <2>3
<1>3. NewCaller(h) \in Caller /\ FindingsHold(NewCaller(h)) /\ ~InProgress(NewCaller(h))
  BY FreshCaller
<1>4. callers' = Append([q \in 1..n |-> k(callers[q])], NewCaller(h))
  BY <1>1 DEF StartCallerFor
<1>5. [q \in 1..n |-> k(callers[q])] \in Seq(Caller)
  BY <1>1, <1>2 DEF CallersHonest
<1>6. /\ callers' \in Seq(Caller) /\ Len(callers') = n + 1 /\ DOMAIN callers' = 1..(n + 1)
      /\ \A q \in 1..n : callers'[q] = k(callers[q])
      /\ callers'[n + 1] = NewCaller(h)
  <2> DEFINE f == [q \in 1..n |-> k(callers[q])]
  <2>1. Len(f) = n /\ DOMAIN f = 1..n /\ \A q \in 1..n : f[q] = k(callers[q])
    BY <1>1, <1>5
  <2> HIDE DEF f, k
  <2> QED BY <1>1, <1>3, <1>4, <1>5, <2>1 DEF f
<1> HIDE DEF k
<1>7. \A q \in DOMAIN callers' : FindingsHold(callers'[q])
  <2> SUFFICES ASSUME NEW q \in 1..(n + 1) PROVE FindingsHold(callers'[q])
    BY <1>6
  <2> QED BY <1>1, <1>2, <1>3, <1>6 DEF CallersHonest
<1>8. OnePerHead'
  <2> SUFFICES ASSUME NEW q \in 1..(n + 1), NEW r \in 1..(n + 1),
                      InProgress(callers'[q]), InProgress(callers'[r]),
                      callers'[q].head = callers'[r].head
               PROVE  q = r
    BY <1>6 DEF OnePerHead, InProgress
  <2>1. q \in 1..n /\ r \in 1..n
    BY <1>1, <1>3, <1>6
  <2>2. /\ InProgress(callers[q]) /\ InProgress(callers[r])
        /\ callers[q].head = callers[r].head
    BY <1>1, <1>2, <1>6, <2>1 DEF CallersHonest
  <2> QED BY <1>1, <2>1, <2>2 DEF OnePerHead
<1> QED BY <1>1, <1>6, <1>7, <1>8

\* A completion or a re-run changes the state of one run only.
LEMMA StateChangeKeepsNewest ==
  ASSUME QualityTypeOK, NewestExists, FlowsRecorded, tip' = tip,
         NEW i \in DOMAIN flows, NEW st \in {"running", "success", "failure"},
         flows' = [flows EXCEPT ![i].state = st],
         succeeded \subseteq succeeded',
         st = "success" => <<flows[i].name, flows[i].head>> \in succeeded'
  PROVE  NewestExists' /\ FlowsRecorded'
<1>1. /\ DOMAIN flows' = DOMAIN flows
      /\ \A j \in DOMAIN flows : /\ flows'[j].name = flows[j].name
                                  /\ flows'[j].head = flows[j].head
                                  /\ j # i => flows'[j].state = flows[j].state
      /\ flows'[i].state = st
  <2>1. flows \in Seq(Flow) /\ DOMAIN flows' = DOMAIN flows
    BY DEF QualityTypeOK
  <2>2. flows[i] \in Flow /\ flows'[i] = [flows[i] EXCEPT !.state = st]
    BY <2>1
  <2>3. /\ flows'[i].state = st /\ flows'[i].name = flows[i].name
        /\ flows'[i].head = flows[i].head
    BY <2>2 DEF Flow
  <2>4. \A j \in DOMAIN flows : j # i => flows'[j] = flows[j]
    BY <2>1
  <2> QED BY <2>1, <2>3, <2>4
<1>2. \A name, h : IdsOf(name, h)' = IdsOf(name, h)
  BY <1>1 DEF IdsOf
<1>3. NewestExists'
  BY <1>2 DEF NewestExists
<1>4. FlowsRecorded'
  BY <1>1 DEF FlowsRecorded
<1> QED BY <1>3, <1>4

\* A completion records a success and starts a caller run.
LEMMA CompletionKeeps ==
  ASSUME QualityInv, NEW i \in DOMAIN flows, CompleteFlow(i)
  PROVE  QualityInv'
<1>0. QualityTypeOK /\ flows \in Seq(Flow) /\ flows[i] \in Flow
  BY DEF QualityInv, QualityTypeOK
<1>1. PICK result \in {"success", "failure"} :
        /\ flows' = [flows EXCEPT ![i].state = result]
        /\ succeeded' = IF result = "success"
                          THEN succeeded \cup {<<flows[i].name, flows[i].head>>}
                          ELSE succeeded
  BY DEF CompleteFlow
<1>2. /\ Len(callers) < MaxCallers
      /\ UNCHANGED <<own, tip, tagged, reruns, taggedTips, started>>
      /\ StartCallerFor(flows[i].head) \/ UNCHANGED callers
  BY DEF CompleteFlow
<1>3. flows' \in Seq(Flow) /\ Len(flows') = Len(flows)
  <2>1. [flows[i] EXCEPT !.state = result] \in Flow
    BY <1>0 DEF Flow
  <2> QED BY <1>0, <1>1, <2>1
<1>4. succeeded' \subseteq Workflows \X Tips /\ succeeded \subseteq succeeded'
  BY <1>0, <1>1 DEF QualityTypeOK, Flow
<1>5. NewestExists' /\ FlowsRecorded'
  BY <1>0, <1>1, <1>2, <1>4, StateChangeKeepsNewest DEF QualityInv
<1>6. /\ callers' \in Seq(Caller) /\ Len(callers') <= MaxCallers
      /\ \A q \in DOMAIN callers' : FindingsHold(callers'[q])
      /\ OnePerHead'
  <2>1. CASE StartCallerFor(flows[i].head)
    BY <1>2, <2>1, StartKeepsCallers DEF QualityInv, FlowsRecorded
  <2>2. CASE UNCHANGED callers
    BY <1>0, <2>2 DEF QualityInv, QualityTypeOK, CallersHonest, OnePerHead
  <2> QED BY <1>2, <2>1, <2>2
<1>7. QualityTypeOK'
  BY <1>0, <1>2, <1>3, <1>4, <1>6 DEF QualityTypeOK
<1>8. CallersHonest'
  BY <1>2, <1>4, <1>6 DEF CallersHonest, FindingsHold
<1>9. OwnReviewIsGated' /\ LabelIsOfReviewedHead' /\ LabelRecorded'
  BY <1>2, <1>4 DEF QualityInv, OwnReviewIsGated, LabelIsOfReviewedHead, LabelRecorded
<1> QED BY <1>5, <1>6, <1>7, <1>8, <1>9 DEF QualityInv

\* A re-run puts a run back to running; what succeeded stays recorded.
LEMMA RerunKeeps ==
  ASSUME QualityInv, NEW i \in DOMAIN flows, Rerun(i)
  PROVE  QualityInv'
<1> USE DEF Rerun
<1>0. QualityTypeOK /\ flows \in Seq(Flow) /\ flows[i] \in Flow
  BY DEF QualityInv, QualityTypeOK
<1>1. QualityTypeOK'
  <2>1. [flows[i] EXCEPT !.state = "running"] \in Flow
    BY <1>0 DEF Flow
  <2>2. flows' \in Seq(Flow) /\ Len(flows') = Len(flows)
    BY <1>0, <2>1
  <2>3. reruns' \in 0..MaxReruns
    BY <1>0, QualityAssumption DEF QualityTypeOK, QualityAssumption
  <2> QED BY <1>0, <2>2, <2>3 DEF QualityTypeOK
<1>2. NewestExists' /\ FlowsRecorded'
  BY <1>0, StateChangeKeepsNewest DEF QualityInv
<1>3. LabelRecorded'
  BY DEF QualityInv, LabelRecorded
<1>4. CallersHonest' /\ OnePerHead' /\ OwnReviewIsGated' /\ LabelIsOfReviewedHead'
  BY <1>0, <1>1, CallersStay DEF QualityTypeOK, Tips
<1> QED BY <1>1, <1>2, <1>3, <1>4 DEF QualityInv

-----------------------------------------------------------------------------
(* A caller run *)

\* A caller run moves on, enters its group only while it is free, and starts
\* only the reviews it may.
LEMMA MoveKeeps ==
  ASSUME QualityInv, NEW q \in DOMAIN callers, NEW c \in Caller, Move(q, c),
         FindingsHold(c), c.head = callers[q].head,
         \/ ~InProgress(c)
         \/ InProgress(callers[q])
         \/ \A r \in DOMAIN callers : callers[r].head = c.head => ~InProgress(callers[r]),
         \/ started' = started
         \/ /\ started' = started \cup {c.target} /\ c.target \in Tips
            /\ own => Workflows \X {c.target} \subseteq succeeded
            /\ ~own => c.target \in taggedTips
  PROVE  QualityInv'
<1> USE DEF Move
<1>0. QualityTypeOK /\ callers \in Seq(Caller)
  BY DEF QualityInv, QualityTypeOK
<1>1. /\ callers' \in Seq(Caller) /\ Len(callers') = Len(callers)
      /\ DOMAIN callers' = DOMAIN callers /\ callers'[q] = c
      /\ \A r \in DOMAIN callers : r # q => callers'[r] = callers[r]
  BY <1>0
<1>2. QualityTypeOK'
  BY <1>0, <1>1 DEF QualityTypeOK
<1>3. NewestExists' /\ FlowsRecorded' /\ LabelRecorded'
  BY DEF QualityInv, NewestExists, IdsOf, FlowsRecorded, LabelRecorded
<1>4. CallersHonest'
  BY <1>1 DEF QualityInv, CallersHonest, FindingsHold
<1>5. OnePerHead'
  <2> SUFFICES ASSUME NEW a \in DOMAIN callers, NEW b \in DOMAIN callers,
                      InProgress(callers'[a]), InProgress(callers'[b]),
                      callers'[a].head = callers'[b].head, a # b
               PROVE  FALSE
    BY <1>1 DEF OnePerHead, InProgress
  <2>1. CASE a # q /\ b # q
    BY <1>1, <2>1 DEF QualityInv, OnePerHead
  <2>2. CASE a = q
    BY <1>1, <2>2 DEF QualityInv, OnePerHead
  <2>3. CASE b = q
    BY <1>1, <2>3 DEF QualityInv, OnePerHead
  <2> QED BY <2>1, <2>2, <2>3
<1>6. OwnReviewIsGated' /\ LabelIsOfReviewedHead'
  <2>1. CASE started' = started
    BY <2>1 DEF QualityInv, OwnReviewIsGated, LabelIsOfReviewedHead
  <2>2. CASE started' # started
    BY <2>2 DEF QualityInv, OwnReviewIsGated, LabelIsOfReviewedHead
  <2> QED BY <2>1, <2>2
<1> QED BY <1>2, <1>3, <1>4, <1>5, <1>6 DEF QualityInv

\* A caller run that ends, for whatever reason, frees its group.
LEMMA LeavingKeeps ==
  ASSUME QualityInv, NEW q \in DOMAIN callers, Move(q, Over(callers[q].head)),
         UNCHANGED started
  PROVE  QualityInv'
<1>1. callers[q].head \in 1..tip /\ QualityTypeOK
  BY DEF QualityInv, CallersHonest, FindingsHold
<1>2. /\ Over(callers[q].head) \in Caller /\ Over(callers[q].head).head = callers[q].head
      /\ FindingsHold(Over(callers[q].head)) /\ ~InProgress(Over(callers[q].head))
  BY <1>1, FreshCaller
<1> QED BY <1>2, MoveKeeps

\* Every step of a caller run keeps the invariant.
LEMMA CallerKeeps ==
  ASSUME QualityInv, NEW q \in DOMAIN callers, CallerStep(q)
  PROVE  QualityInv'
<1> DEFINE c == callers[q]
<1>0. /\ QualityTypeOK /\ c \in Caller /\ FindingsHold(c) /\ c.head \in 1..tip
      /\ tip \in Tips /\ tip \in 0..MaxTip /\ tagged \in BOOLEAN /\ c.head \in Tips
  BY QualityAssumption, SMTT(20)
     DEF QualityInv, QualityTypeOK, CallersHonest, FindingsHold, QualityAssumption, Tips
<1>1. CASE BeginCaller(q)
  <2> DEFINE d == [c EXCEPT !.pc = "list"]
  <2>1. d \in Caller /\ d.head = c.head
    BY <1>0 DEF Caller
  <2>2. FindingsHold(d)
    BY <1>0, <1>1 DEF Caller, FindingsHold, BeginCaller
  <2> QED BY <1>1, <2>2, <2>1, MoveKeeps DEF BeginCaller
<1>2. CASE FindPullRequest(q)
  <2> DEFINE d == [c EXCEPT !.pc = IF own THEN "ci" ELSE "refresh", !.target = tip]
  <2>1. CASE c.head = tip
    <3>1. d \in Caller /\ d.head = c.head
      BY <1>0 DEF Caller
    <3>2. c.pc = "list" /\ InProgress(c)
      BY <1>2 DEF FindPullRequest, InProgress
    <3>3. FindingsHold(d)
      BY <1>0, <2>1, <3>2 DEF Caller, FindingsHold, QualityInv, CallersHonest
    <3>4. Move(q, d) /\ started' = started
      BY <1>2, <2>1 DEF FindPullRequest
    <3> QED BY <3>1, <3>2, <3>3, <3>4, MoveKeeps
  <2>2. CASE c.head # tip
    BY <1>2, <2>2, LeavingKeeps DEF FindPullRequest
  <2> QED BY <2>1, <2>2
<1>3. CASE ReadAgain(q)
  <2> DEFINE d == [c EXCEPT !.pc = "ci", !.approved = tagged, !.target = tip]
  <2>1. d \in Caller /\ d.head = c.head
    BY <1>0 DEF Caller
  <2>2. c.pc = "refresh" /\ InProgress(c) /\ ~own
    BY <1>0, <1>3 DEF ReadAgain, InProgress, FindingsHold
  <2>3. FindingsHold(d)
    BY <1>0, <2>2 DEF Caller, FindingsHold, QualityInv, LabelRecorded
  <2> QED BY <1>3, <2>1, <2>2, <2>3, MoveKeeps DEF ReadAgain
<1>4. CASE ReadCi(q)
  <2> DEFINE d == [c EXCEPT !.pc = "compliance",
                            !.ci = LatestRun("ci", c.head).state = "success"]
  <2>1. d \in Caller /\ d.head = c.head /\ c.pc = "ci" /\ InProgress(c)
    BY <1>0, <1>4 DEF Caller, ReadCi, InProgress
  <2>2. d.ci => <<"ci", c.head>> \in succeeded
    BY <1>0, LatestIsRecorded DEF Caller, QualityInv, Workflows
  <2>3. FindingsHold(d)
    BY <1>0, <2>1, <2>2 DEF Caller, FindingsHold
  <2> QED BY <1>4, <2>1, <2>3, MoveKeeps DEF ReadCi
<1>5. CASE ReadCompliance(q)
  <2> DEFINE d == [c EXCEPT !.pc = "route",
                            !.compliance = LatestRun("compliance", c.head).state = "success"]
  <2>1. d \in Caller /\ d.head = c.head /\ c.pc = "compliance" /\ InProgress(c)
    BY <1>0, <1>5 DEF Caller, ReadCompliance, InProgress
  <2>2. d.compliance => <<"compliance", c.head>> \in succeeded
    BY <1>0, LatestIsRecorded DEF Caller, QualityInv, Workflows
  <2>3. FindingsHold(d)
    BY <1>0, <2>1, <2>2 DEF Caller, FindingsHold
  <2> QED BY <1>5, <2>1, <2>3, MoveKeeps DEF ReadCompliance
<1>6. CASE StartQualityReview(q)
  <2> DEFINE d == [c EXCEPT !.pc = "review"]
  <2>1. /\ d \in Caller /\ d.head = c.head /\ d.target = c.target
        /\ c.pc = "route" /\ InProgress(c) /\ FindingsHold(d)
    BY <1>0, <1>6 DEF Caller, StartQualityReview, InProgress, FindingsHold
  <2>2. c.target \in Tips /\ (own => Workflows \X {c.target} \subseteq succeeded)
    BY <1>0, <1>6, <2>1
       DEF StartQualityReview, ReviewIsDue, GatesPassed, FindingsHold, Workflows
  <2>3. ~own => c.target \in taggedTips
    BY <1>0, <1>6 DEF StartQualityReview, ReviewIsDue, FindingsHold
  <2> QED BY <1>6, <2>1, <2>2, <2>3, MoveKeeps DEF StartQualityReview
<1>7. CASE LeaveUnreviewed(q) \/ FinishReview(q) \/ StopCaller(q)
  BY <1>7, LeavingKeeps DEF LeaveUnreviewed, FinishReview, StopCaller
<1> QED BY <1>1, <1>2, <1>3, <1>4, <1>5, <1>6, <1>7 DEF CallerStep

-----------------------------------------------------------------------------
\* Every step keeps the invariant.
LEMMA StepKeeps == QualityInv /\ [QualityNext]_qualityVars => QualityInv'
<1> SUFFICES ASSUME QualityInv, [QualityNext]_qualityVars PROVE QualityInv'
  OBVIOUS
<1>1. CASE PushRevision
  BY <1>1, PushKeeps
<1>2. CASE EditText \/ ApplyLabel
  BY <1>2, EditKeeps
<1>3. CASE TakeLabelOff
  BY <1>3, TakeOffKeeps
<1>4. CASE \E i \in DOMAIN flows : CompleteFlow(i)
  BY <1>4, CompletionKeeps
<1>5. CASE \E i \in DOMAIN flows : Rerun(i)
  BY <1>5, RerunKeeps
<1>6. CASE \E q \in DOMAIN callers : CallerStep(q)
  BY <1>6, CallerKeeps
<1>7. CASE UNCHANGED qualityVars
  BY <1>7 DEF qualityVars, QualityInv, QualityTypeOK, NewestExists, IdsOf,
     FlowsRecorded, LabelRecorded, CallersHonest, FindingsHold, OnePerHead,
     InProgress, OwnReviewIsGated, LabelIsOfReviewedHead
<1> QED BY <1>1, <1>2, <1>3, <1>4, <1>5, <1>6, <1>7 DEF QualityNext

\* Whatever is pushed, labelled or run again between the requests of the
\* callers: an own revision is reviewed only after a success of both workflows
\* for it, a fork's only with its own label, and no own one twice at a time.
THEOREM ReviewsGated == QualitySpec => []ReviewsAreGated
<1>1. QualityInv => ReviewsAreGated
  <2> SUFFICES ASSUME QualityInv PROVE OneReviewAtATime
    BY DEF QualityInv, ReviewsAreGated
  <2> QED
    BY DEF QualityInv, CallersHonest, FindingsHold, OnePerHead, InProgress,
           OneReviewAtATime
<1> QED BY <1>1, InitEstablishes, StepKeeps, PTL DEF QualitySpec
=============================================================================

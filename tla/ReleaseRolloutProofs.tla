------------------------- MODULE ReleaseRolloutProofs -------------------------
(***************************************************************************)
(* The rollout of any number of consumers, with any number of publishes,   *)
(* edits, failures and kills: types, and what a report without an error    *)
(* means.                                                                  *)
(***************************************************************************)
EXTENDS ReleaseRollout, TLAPS

\* A history that extends another starts with it.
LEMMA ExtendsKeeps ==
    ASSUME NEW S, NEW long \in Seq(S), NEW short \in Seq(S), Extends(long, short)
    PROVE  /\ Len(long) >= Len(short)
           /\ \A n \in 1..Len(short) : long[n] = short[n]
BY DEF Extends

LEMMA AppendKeeps ==
    ASSUME NEW S, NEW s \in Seq(S), NEW e \in S
    PROVE  /\ Append(s, e) \in Seq(S) /\ Len(Append(s, e)) = Len(s) + 1
           /\ Append(s, e)[Len(s) + 1] = e
           /\ \A n \in 1..Len(s) : Append(s, e)[n] = s[n]
OBVIOUS
-----------------------------------------------------------------------------
(* Types *)

\* Where the command is with its consumers.
Placed ==
    /\ run.pc = "report" => run.c = Consumers + 1
    /\ run.pc \notin {"idle", "report"} => run.c \in Consumer
    /\ run.watch => run.push
    /\ run.v <= latest

TypeInv == TypeOK /\ Placed

LEMMA TypeInit == Init => TypeInv
<1> SUFFICES ASSUME Init PROVE TypeInv
    OBVIOUS
<1>1. First \in Content
    BY RolloutAssumption DEF First, Content, Version
<1>2. <<First>> \in Seq(Content) /\ Len(<<First>>) = 1
    BY <1>1
<1>3. QED
    BY <1>1, <1>2, RolloutAssumption
    DEF Init, TypeInv, TypeOK, Placed, Consumer, Version, Phase, NoReport

\* Other work on top of a commit.
LEMMA WorkType ==
    ASSUME NEW e \in Content
    PROVE  [e EXCEPT !.work = e.work + 1] \in Content
<1>1. e.work + 1 \in Nat
    BY DEF Content
<1>2. QED
    BY <1>1 DEF Content

LEMMA TipType == TypeOK => \A c \in Consumer : Tip(c) \in Content
BY DEF TypeOK, Tip

LEMMA StagedType == TypeOK => \A c \in Consumer : Staged(c) \in Content
<1> SUFFICES ASSUME TypeOK, NEW c \in Consumer PROVE Staged(c) \in Content
    OBVIOUS
<1>1. Tip(c) \in Content /\ tree[c] \in Content
    BY TipType DEF TypeOK
<1>2. Tip(c).work \in Nat
    BY <1>1 DEF Content
<1>3. QED
    BY <1>1, <1>2 DEF Staged, Content

RunTyped ==
    /\ run \in [pc : Phase, c : Nat, v : Version, push : BOOLEAN, watch : BOOLEAN,
                failed : SUBSET Consumer]
    /\ run.pc \notin {"idle", "report"} => run.c \in Consumer

\* The command is the same.
SameCommand == run'.v = run.v /\ run'.push = run.push /\ run'.watch = run.watch

\* What the ways to go on do to the command.
LEMMA LeaveSteps ==
    ASSUME TypeInv, UNCHANGED latest, run.c \in Consumer,
           NEW STATE failed, failed \in SUBSET Consumer, Leave(failed)
    PROVE  /\ RunTyped' /\ Placed' /\ SameCommand
           /\ run'.pc \in {"inspect", "report"} /\ run'.c = run.c + 1
           /\ run'.failed = run.failed \cup failed
<1> DEFINE next == IF run.c = Consumers THEN "report" ELSE "inspect"
<1>1. /\ run \in [pc : Phase, c : Nat, v : Version, push : BOOLEAN, watch : BOOLEAN,
                 failed : SUBSET Consumer]
      /\ run' = [run EXCEPT !.failed = run.failed \cup failed, !.c = run.c + 1, !.pc = next]
    BY DEF TypeInv, TypeOK, Leave
<1>2. next \in Phase /\ next \in {"inspect", "report"}
    BY DEF Phase
<1>3. /\ run'.pc = next /\ run'.c = run.c + 1 /\ run'.failed = run.failed \cup failed
      /\ run'.v = run.v /\ run'.push = run.push /\ run'.watch = run.watch
    BY <1>1
<1>4. run.failed \cup failed \in SUBSET Consumer /\ run.c + 1 \in Nat
    BY <1>1
<1>5. run' \in [pc : Phase, c : Nat, v : Version, push : BOOLEAN, watch : BOOLEAN,
                failed : SUBSET Consumer]
    BY <1>1, <1>2, <1>4
<1>6. /\ next = "inspect" => run.c + 1 \in Consumer
      /\ next = "report" => run.c + 1 = Consumers + 1
    BY RolloutAssumption DEF Consumer
<1>7. Placed'
    BY <1>2, <1>3, <1>6 DEF TypeInv, Placed
<1>8. QED
    BY <1>2, <1>3, <1>5, <1>6, <1>7 DEF RunTyped, SameCommand

LEMMA GotoSteps ==
    ASSUME TypeInv, UNCHANGED latest, run.c \in Consumer,
           NEW pc \in Phase \ {"idle", "report"}, Goto(pc)
    PROVE  /\ RunTyped' /\ Placed' /\ SameCommand
           /\ run'.pc = pc /\ run'.c = run.c /\ run'.failed = run.failed
<1>1. /\ run \in [pc : Phase, c : Nat, v : Version, push : BOOLEAN, watch : BOOLEAN,
                 failed : SUBSET Consumer]
      /\ run' = [run EXCEPT !.pc = pc]
      /\ pc \in Phase /\ pc # "idle" /\ pc # "report"
    BY DEF TypeInv, TypeOK, Goto
<1>2. /\ run'.pc = pc /\ run'.c = run.c /\ run'.failed = run.failed
      /\ run'.v = run.v /\ run'.push = run.push /\ run'.watch = run.watch
    BY <1>1
<1>3. run' \in [pc : Phase, c : Nat, v : Version, push : BOOLEAN, watch : BOOLEAN,
                failed : SUBSET Consumer]
    BY <1>1
<1>4. run'.c \in Consumer
    BY <1>2
<1>5. Placed'
    BY <1>1, <1>2 DEF TypeInv, Placed
<1>6. QED
    BY <1>2, <1>3, <1>4, <1>5 DEF RunTyped, SameCommand

LEMMA SettleSteps ==
    ASSUME TypeInv, UNCHANGED latest, run.c \in Consumer, Settle
    PROVE  /\ RunTyped' /\ Placed' /\ SameCommand /\ run'.failed = run.failed
           /\ \/ run.watch /\ run'.pc = "watch" /\ run'.c = run.c
              \/ ~run.watch /\ run'.pc \in {"inspect", "report"} /\ run'.c = run.c + 1
<1>1. CASE run.watch
    <2>1. Goto("watch")
        BY <1>1 DEF Settle
    <2>2. "watch" \in Phase \ {"idle", "report"}
        BY DEF Phase
    <2>3. QED
        BY <1>1, <2>1, <2>2, GotoSteps
<1>2. CASE ~run.watch
    <2>1. Leave({})
        BY <1>2 DEF Settle, LeaveDone
    <2>2. QED
        BY <1>2, <2>1, LeaveSteps
<1>3. QED
    BY <1>1, <1>2

LEMMA FailSteps ==
    ASSUME TypeInv, UNCHANGED latest, run.c \in Consumer, LeaveFailed
    PROVE  /\ RunTyped' /\ Placed' /\ SameCommand
           /\ run'.pc \in {"inspect", "report"} /\ run'.c = run.c + 1
           /\ run'.failed = run.failed \cup {run.c}
<1>1. Leave({run.c}) /\ {run.c} \in SUBSET Consumer
    BY DEF LeaveFailed
<1>2. QED
    BY <1>1, LeaveSteps

LEMMA IdleSteps ==
    ASSUME TypeInv, UNCHANGED latest, run' = Idle
    PROVE  RunTyped' /\ Placed' /\ run'.pc = "idle" /\ run'.v = run.v /\ ~run'.push /\ ~run'.watch
<1>1. run.v \in Version /\ run.v <= latest
    BY DEF TypeInv, TypeOK, Placed
<1>2. QED
    BY <1>1 DEF Idle, RunTyped, Placed, Phase

LEMMA ReceivedType ==
    ASSUME TypeOK, NEW c \in Consumer, Accepted(c)
    PROVE  /\ Received(c) \in [Consumer -> Seq(Content)]
           /\ \A d \in Consumer :
                 /\ Len(Received(c)[d]) >= Len(origin[d])
                 /\ \A n \in 1..Len(origin[d]) : Received(c)[d][n] = origin[d][n]
<1>1. CASE c \in OnMain
    <2>1. local[c] \in Seq(Content) /\ origin[c] \in Seq(Content) /\ Extends(local[c], origin[c])
        BY <1>1 DEF TypeOK, Accepted
    <2>2. Len(local[c]) >= Len(origin[c]) /\ \A n \in 1..Len(origin[c]) : local[c][n] = origin[c][n]
        BY <2>1, ExtendsKeeps
    <2>3. Received(c) = [origin EXCEPT ![c] = local[c]]
        BY <1>1 DEF Received
    <2>4. \A d \in Consumer : origin[d] \in Seq(Content)
        BY DEF TypeOK
    <2>5. QED
        BY <2>1, <2>2, <2>3, <2>4 DEF TypeOK
<1>2. CASE c \notin OnMain
    BY <1>2 DEF TypeOK, Received
<1>3. QED
    BY <1>1, <1>2

\* Only the command changes.
LEMMA RunOnly ==
    ASSUME TypeInv, UNCHANGED <<git, remote, report>>, RunTyped', Placed'
    PROVE  TypeInv'
BY DEF TypeInv, TypeOK, RunTyped, git, remote

\* The command and the working tree change.
LEMMA TreeOnly ==
    ASSUME TypeInv, UNCHANGED <<local, origin, tracked, remote, report>>, RunTyped', Placed',
           tree' \in [Consumer -> Content]
    PROVE  TypeInv'
BY DEF TypeInv, TypeOK, RunTyped, remote

LEMMA TypeStep == TypeInv /\ [Next]_vars => TypeInv'
<1> SUFFICES ASSUME TypeInv, [Next]_vars PROVE TypeInv'
    OBVIOUS
<1> USE DEF At
<1>0. run.pc \notin {"idle", "report"} => run.c \in Consumer
    BY DEF TypeInv, TypeOK
<1>t. \A c \in Consumer : tree[c] \in Content /\ tree[c].deps \in [v : Version, whole : BOOLEAN]
    BY DEF TypeInv, TypeOK, Content
<1>1. ASSUME NEW v \in Version, NEW push \in BOOLEAN, NEW watch \in BOOLEAN, Roll(v, push, watch)
      PROVE  TypeInv'
    <2>1. RunTyped' /\ Placed'
        BY <1>1, RolloutAssumption DEF Roll, RunTyped, Placed, Phase, Consumer, remote
    <2>2. QED
        BY <1>1, <2>1, RolloutAssumption
        DEF Roll, RunTyped, TypeInv, TypeOK, git, remote, NoReport, Version
<1>2. CASE Inspect
    <2>1. CASE Goto("sanitize")
        BY <1>0, <1>2, <2>1, GotoSteps, RunOnly DEF Inspect, Phase, remote
    <2>2. CASE LeaveFailed
        BY <1>0, <1>2, <2>2, FailSteps, RunOnly DEF Inspect, remote
    <2>3. QED
        BY <1>2, <2>1, <2>2 DEF Inspect
<1>3. CASE Sanitize
    <2>1. tree' \in [Consumer -> Content]
        BY <1>0, <1>t, <1>3 DEF Sanitize, TypeInv, TypeOK, Content
    <2>2. QED
        BY <1>0, <1>3, <2>1, GotoSteps, TreeOnly DEF Sanitize, Phase, remote
<1>4. CASE Install
    <2>1. tree' \in [Consumer -> Content]
        BY <1>0, <1>t, <1>4 DEF Install, TypeInv, TypeOK, Content
    <2>2. QED
        BY <1>0, <1>4, <2>1, GotoSteps, TreeOnly DEF Install, Phase, remote
<1>5. CASE Pin
    <2>1. tree' \in [Consumer -> Content]
        BY <1>0, <1>t, <1>5 DEF Pin, TypeInv, TypeOK, Content
    <2>2. QED
        BY <1>0, <1>5, <2>1, GotoSteps, TreeOnly DEF Pin, Phase, remote
<1>6. CASE Check
    BY <1>0, <1>6, GotoSteps, RunOnly DEF Check, Phase, remote
<1>7. CASE Stage
    <2>1. CASE Goto("commit")
        BY <1>0, <1>7, <2>1, GotoSteps, RunOnly DEF Stage, Phase, remote
    <2>2. CASE Goto("ahead")
        BY <1>0, <1>7, <2>2, GotoSteps, RunOnly DEF Stage, Phase, remote
    <2>3. CASE Settle
        BY <1>0, <1>7, <2>3, SettleSteps, RunOnly DEF Stage, remote
    <2>4. QED
        BY <1>7, <2>1, <2>2, <2>3 DEF Stage
<1>8. CASE Commit
    <2>0. run.c \in Consumer /\ UNCHANGED latest
        BY <1>0, <1>8 DEF Commit, remote
    <2>1. RunTyped' /\ Placed'
        <3>1. CASE Goto("push")
            BY <2>0, <3>1, GotoSteps DEF Phase
        <3>2. CASE Settle
            BY <2>0, <3>2, SettleSteps
        <3>3. QED
            BY <1>8, <3>1, <3>2 DEF Commit
    <2>2. Staged(run.c) \in Content /\ local[run.c] \in Seq(Content)
        BY <2>0, StagedType DEF TypeInv, TypeOK
    <2>3. /\ local' \in [Consumer -> Seq(Content)]
          /\ \A c \in Consumer : Len(local'[c]) > 0
        <3>1. local' = [local EXCEPT ![run.c] = Append(local[run.c], Staged(run.c))]
            BY <1>8 DEF Commit
        <3>2. Append(local[run.c], Staged(run.c)) \in Seq(Content)
              /\ Len(Append(local[run.c], Staged(run.c))) > 0
            BY <2>2
        <3>3. QED
            BY <3>1, <3>2, <2>0 DEF TypeInv, TypeOK
    <2>4. QED
        BY <1>8, <2>1, <2>3 DEF Commit, TypeInv, TypeOK, RunTyped, remote
<1>9. CASE Ahead
    <2>1. CASE Goto("push")
        BY <1>0, <1>9, <2>1, GotoSteps, RunOnly DEF Ahead, Phase, remote
    <2>2. CASE Settle
        BY <1>0, <1>9, <2>2, SettleSteps, RunOnly DEF Ahead, remote
    <2>3. QED
        BY <1>9, <2>1, <2>2 DEF Ahead
<1>10. CASE Push
    <2>0. run.c \in Consumer /\ UNCHANGED latest
        BY <1>0, <1>10 DEF Push, remote
    <2>1. RunTyped' /\ Placed'
        BY <1>10, <2>0, SettleSteps DEF Push
    <2>2. TypeOK /\ Accepted(run.c)
        BY <1>10 DEF Push, TypeInv
    <2>3. /\ origin' \in [Consumer -> Seq(Content)]
          /\ \A d \in Consumer : Len(origin'[d]) >= Len(origin[d])
        BY <1>10, <2>0, <2>2, ReceivedType DEF Push
    <2>4. /\ tracked' \in [Consumer -> Nat]
          /\ \A c \in Consumer : tracked'[c] \in 1..Len(origin'[c])
        <3>1. tracked' = [tracked EXCEPT ![run.c] = Len(origin'[run.c])]
            BY <1>10 DEF Push
        <3>2. \A c \in Consumer : Len(origin'[c]) \in Nat /\ Len(origin[c]) \in Nat \ {0}
            BY <2>3 DEF TypeInv, TypeOK
        <3>3. QED
            BY <2>0, <2>3, <3>1, <3>2 DEF TypeInv, TypeOK
    <2>5. /\ \A c \in Consumer : Len(origin'[c]) > 0 /\ ci[c].n \in 1..Len(origin'[c])
          /\ \A c \in Consumer : green[c] \subseteq 1..Len(origin'[c])
        <3>1. \A c \in Consumer : Len(origin'[c]) \in Nat /\ Len(origin[c]) \in Nat \ {0}
            BY <2>3 DEF TypeInv, TypeOK
        <3>2. QED
            BY <2>3, <3>1 DEF TypeInv, TypeOK
    <2>6. QED
        BY <1>10, <2>1, <2>3, <2>4, <2>5 DEF Push, TypeInv, TypeOK, RunTyped, remote
<1>11. CASE PushRejected
    BY <1>0, <1>11, FailSteps, RunOnly DEF PushRejected, remote
<1>12. CASE Watch
    BY <1>0, <1>12, GotoSteps, RunOnly DEF Watch, Phase, remote
<1>13. CASE Timeout
    BY <1>0, <1>13, FailSteps, RunOnly DEF Timeout, remote
<1>14. CASE InspectStrictly
    <2>1. CASE LeaveFailed
        BY <1>0, <1>14, <2>1, FailSteps, RunOnly DEF InspectStrictly, remote
    <2>2. CASE Leave({})
        BY <1>0, <1>14, <2>2, LeaveSteps, RunOnly DEF InspectStrictly, remote
    <2>3. QED
        BY <1>14, <2>1, <2>2 DEF InspectStrictly, LeaveDone
<1>15. CASE Report
    <2>1. RunTyped' /\ Placed'
        BY <1>15, IdleSteps DEF Report, remote
    <2>2. report' \in [v : Version, push : BOOLEAN, watch : BOOLEAN, failed : SUBSET Consumer]
        BY <1>15 DEF Report, TypeInv, TypeOK
    <2>3. QED
        BY <1>15, <2>1, <2>2 DEF Report, TypeInv, TypeOK, RunTyped, git, remote
<1>16. CASE Fail
    BY <1>0, <1>16, FailSteps, RunOnly DEF Fail, remote
<1>17. CASE Kill
    <2>1. RunTyped' /\ Placed'
        BY <1>17, IdleSteps DEF Kill, remote
    <2>2. CASE UNCHANGED origin
        BY <1>17, <2>1, <2>2, RunOnly DEF Kill, git
    <2>3. CASE At("push") /\ Accepted(run.c) /\ origin' = Received(run.c)
        <3>1. run.c \in Consumer /\ TypeOK
            BY <1>0, <2>3 DEF TypeInv
        <3>2. /\ origin' \in [Consumer -> Seq(Content)]
              /\ \A d \in Consumer : Len(origin'[d]) >= Len(origin[d])
            BY <2>3, <3>1, ReceivedType
        <3>3. \A c \in Consumer : Len(origin'[c]) \in Nat /\ Len(origin[c]) \in Nat \ {0}
            BY <3>2 DEF TypeInv, TypeOK
        <3>4. QED
            BY <1>17, <2>1, <3>2, <3>3 DEF Kill, TypeInv, TypeOK, RunTyped, remote
    <2>4. QED
        BY <1>17, <2>2, <2>3 DEF Kill
<1>18. CASE Publish
    BY <1>18, RolloutAssumption DEF Publish, TypeInv, TypeOK, Placed, git, Version
<1>19. ASSUME NEW c \in Consumer, Edit(c) PROVE TypeInv'
    <2>1. tree' = [tree EXCEPT ![c] = [tree[c] EXCEPT !.work = tree[c].work + 1]]
        BY <1>19 DEF Edit
    <2>2. [tree[c] EXCEPT !.work = tree[c].work + 1] \in Content
        BY <1>t, WorkType
    <2>3. tree' \in [Consumer -> Content]
        BY <2>1, <2>2 DEF TypeInv, TypeOK
    <2>4. QED
        BY <1>19, <2>3 DEF Edit, TypeInv, TypeOK, Placed, remote
<1>20. ASSUME NEW c \in Consumer, CommitByHand(c) PROVE TypeInv'
    <2>1. Append(local[c], tree[c]) \in Seq(Content) /\ Len(Append(local[c], tree[c])) > 0
        BY DEF TypeInv, TypeOK
    <2>2. QED
        BY <1>20, <2>1 DEF CommitByHand, TypeInv, TypeOK, Placed, remote
<1>21. ASSUME NEW c \in Consumer, Discard(c) PROVE TypeInv'
    <2>1. Tip(c) \in Content
        BY TipType DEF TypeInv
    <2>2. QED
        BY <1>21, <2>1 DEF Discard, TypeInv, TypeOK, Placed, remote
<1>22. ASSUME NEW c \in Consumer, Reset(c) PROVE TypeInv'
    <2>1. /\ origin[c] \in Seq(Content) /\ Len(origin[c]) \in Nat /\ Len(origin[c]) > 0
          /\ origin[c][Len(origin[c])] \in Content /\ Len(origin[c]) \in 1..Len(origin[c])
        BY DEF TypeInv, TypeOK
    <2>2. QED
        BY <1>22, <2>1 DEF Reset, TypeInv, TypeOK, Placed, remote
<1>23. ASSUME NEW c \in Consumer, Contribute(c) PROVE TypeInv'
    <2> DEFINE tip == origin[c][Len(origin[c])]
               commit == [tip EXCEPT !.work = tip.work + 1]
    <2>1. origin[c] \in Seq(Content) /\ origin[c][Len(origin[c])] \in Content
        BY DEF TypeInv, TypeOK
    <2>2. commit \in Content
        BY <2>1, WorkType
    <2>3. origin' = [origin EXCEPT ![c] = Append(origin[c], commit)]
        BY <1>23 DEF Contribute
    <2> HIDE DEF commit
    <2>4. /\ Append(origin[c], commit) \in Seq(Content)
          /\ Len(Append(origin[c], commit)) = Len(origin[c]) + 1
        BY <2>1, <2>2
    <2>5. origin' \in [Consumer -> Seq(Content)]
        BY <2>3, <2>4 DEF TypeInv, TypeOK
    <2>6. \A d \in Consumer : Len(origin'[d]) \in Nat /\ Len(origin[d]) \in Nat \ {0}
        BY <2>5 DEF TypeInv, TypeOK
    <2>7. \A d \in Consumer : Len(origin'[d]) >= Len(origin[d])
        BY <2>3, <2>4, <2>6 DEF TypeInv, TypeOK
    <2>8. ASSUME NEW d \in Consumer
          PROVE  /\ Len(origin'[d]) > 0 /\ tracked[d] \in 1..Len(origin'[d])
                 /\ ci[d].n \in 1..Len(origin'[d]) /\ green[d] \subseteq 1..Len(origin'[d])
        <3>1. /\ tracked[d] \in 1..Len(origin[d]) /\ ci[d].n \in 1..Len(origin[d])
              /\ green[d] \subseteq 1..Len(origin[d])
            BY DEF TypeInv, TypeOK
        <3>2. /\ Len(origin'[d]) \in Nat /\ Len(origin[d]) \in Nat \ {0}
              /\ Len(origin'[d]) >= Len(origin[d])
            BY <2>6, <2>7
        <3>3. QED
            BY <3>1, <3>2
    <2>9. QED
        BY <1>23, <2>5, <2>8 DEF Contribute, TypeInv, TypeOK, Placed, remote
<1>24. ASSUME NEW c \in Consumer, CiStart(c) PROVE TypeInv'
    <2>1. Len(origin[c]) \in Nat /\ Len(origin[c]) \in 1..Len(origin[c])
        BY DEF TypeInv, TypeOK
    <2>2. QED
        BY <1>24, <2>1 DEF CiStart, TypeInv, TypeOK, Placed, git
<1>25. ASSUME NEW c \in Consumer, NEW ok \in BOOLEAN, CiComplete(c, ok) PROVE TypeInv'
    <2>1. green[c] \cup {ci[c].n} \subseteq 1..Len(origin[c])
        BY DEF TypeInv, TypeOK
    <2>2. green' \in [Consumer -> SUBSET Nat] /\ \A d \in Consumer : green'[d] \subseteq 1..Len(origin[d])
        BY <1>25, <2>1 DEF CiComplete, TypeInv, TypeOK
    <2>3. ci' = [ci EXCEPT ![c] = [ci[c] EXCEPT !.done = TRUE, !.ok = ok]]
        BY <1>25 DEF CiComplete, TypeInv, TypeOK
    <2>4. /\ [ci[c] EXCEPT !.done = TRUE, !.ok = ok] \in [n : Nat, done : BOOLEAN, ok : BOOLEAN]
          /\ [ci[c] EXCEPT !.done = TRUE, !.ok = ok].n = ci[c].n
        BY DEF TypeInv, TypeOK
    <2>5. /\ ci' \in [Consumer -> [n : Nat, done : BOOLEAN, ok : BOOLEAN]]
          /\ \A d \in Consumer : ci'[d].n = ci[d].n
        BY <2>3, <2>4 DEF TypeInv, TypeOK
    <2>6. QED
        BY <1>25, <2>2, <2>5 DEF CiComplete, TypeInv, TypeOK, Placed, git
<1>26. CASE UNCHANGED vars
    BY <1>26 DEF vars, git, remote, TypeInv, TypeOK, Placed, bounds
<1>27. QED
    BY <1>1, <1>2, <1>3, <1>4, <1>5, <1>6, <1>7, <1>8, <1>9, <1>10, <1>11, <1>12, <1>13, <1>14,
       <1>15, <1>16, <1>17, <1>18, <1>19, <1>20, <1>21, <1>22, <1>23, <1>24, <1>25, <1>26
    DEF Next, Step

\* Histories, runs and the command keep their types, and the command never
\* loses its place among the consumers.
THEOREM RolloutTypeCorrect == Spec => []TypeOK
<1>1. Init => TypeInv
    BY TypeInit
<1>2. TypeInv /\ [Next]_vars => TypeInv'
    BY TypeStep
<1>3. TypeInv => TypeOK
    BY DEF TypeInv
<1>4. QED
    BY <1>1, <1>2, <1>3, PTL DEF Spec
-----------------------------------------------------------------------------
(* What the remotes have *)

\* The remote main has a commit that pins the version and locks it or a newer
\* one; its workflow has succeeded on a commit that pins it.
Holds(content, v) == content.pin = v /\ content.deps.v >= v
Landed(c, v) == \E n \in 1..Len(origin[c]) : Holds(origin[c][n], v)
Greened(c, v) == \E n \in green[c] : origin[c][n].pin = v

\* A remote history is only ever appended to, and so are its green commits.
Grown ==
    \A d \in Consumer :
        /\ Len(origin[d]) <= Len(origin'[d])
        /\ \A n \in 1..Len(origin[d]) : origin'[d][n] = origin[d][n]
        /\ green[d] \subseteq green'[d]

LEMMA GrownSame == TypeInv /\ UNCHANGED <<origin, green>> => Grown
BY DEF Grown, TypeInv, TypeOK

LEMMA GrownStep == TypeInv /\ [Next]_vars => Grown
<1> SUFFICES ASSUME TypeInv, [Next]_vars PROVE Grown
    OBVIOUS
<1> USE DEF At
<1>0. run.pc \notin {"idle", "report"} => run.c \in Consumer
    BY DEF TypeInv, TypeOK
<1>t. \A d \in Consumer : Len(origin[d]) \in Nat
    BY DEF TypeInv, TypeOK
<1>r. ASSUME run.c \in Consumer, Accepted(run.c), origin' = Received(run.c), UNCHANGED green
      PROVE  Grown
    BY <1>r, <1>t, ReceivedType DEF Grown, TypeInv
<1>1. CASE Push
    BY <1>0, <1>1, <1>r DEF Push, remote
<1>2. CASE Kill
    <2>1. CASE UNCHANGED origin
        BY <1>2, <2>1, GrownSame DEF Kill, remote
    <2>2. CASE At("push") /\ Accepted(run.c) /\ origin' = Received(run.c)
        BY <1>0, <1>2, <2>2, <1>r DEF Kill, remote
    <2>3. QED
        BY <1>2, <2>1, <2>2 DEF Kill
<1>3. ASSUME NEW c \in Consumer, Contribute(c) PROVE Grown
    <2> DEFINE tip == origin[c][Len(origin[c])]
               commit == [tip EXCEPT !.work = tip.work + 1]
    <2>1. origin[c] \in Seq(Content) /\ tip \in Content
        BY DEF TypeInv, TypeOK
    <2>2. commit \in Content
        BY <2>1, WorkType
    <2>3. origin' = [origin EXCEPT ![c] = Append(origin[c], commit)] /\ UNCHANGED green
        BY <1>3 DEF Contribute, remote
    <2> HIDE DEF commit
    <2>4. /\ Len(Append(origin[c], commit)) = Len(origin[c]) + 1
          /\ \A n \in 1..Len(origin[c]) : Append(origin[c], commit)[n] = origin[c][n]
        BY <2>1, <2>2, AppendKeeps
    <2>5. QED
        BY <1>t, <2>3, <2>4 DEF Grown, TypeInv, TypeOK
<1>4. ASSUME NEW c \in Consumer, NEW ok \in BOOLEAN, CiComplete(c, ok) PROVE Grown
    <2>1. UNCHANGED origin /\ \A d \in Consumer : green[d] \subseteq green'[d]
        BY <1>4 DEF CiComplete, git, TypeInv, TypeOK
    <2>2. QED
        BY <1>t, <2>1 DEF Grown
<1>5. CASE \/ Inspect \/ Sanitize \/ Install \/ Pin \/ Check \/ Stage \/ Commit \/ Ahead
           \/ PushRejected \/ Watch \/ Timeout \/ InspectStrictly \/ Report \/ Fail \/ Publish
    BY <1>5, GrownSame
    DEF Inspect, Sanitize, Install, Pin, Check, Stage, Commit, Ahead, PushRejected, Watch, Timeout,
        InspectStrictly, Report, Fail, Publish, git, remote
<1>6. CASE \E v \in Version, push, watch \in BOOLEAN : Roll(v, push, watch)
    BY <1>6, GrownSame DEF Roll, git, remote
<1>7. CASE \E c \in Consumer : Edit(c) \/ CommitByHand(c) \/ Discard(c) \/ Reset(c) \/ CiStart(c)
    BY <1>7, GrownSame DEF Edit, CommitByHand, Discard, Reset, CiStart, git, remote
<1>8. CASE UNCHANGED vars
    BY <1>8, GrownSame DEF vars
<1>9. QED
    BY <1>1, <1>2, <1>3, <1>4, <1>5, <1>6, <1>7, <1>8 DEF Next, Step

\* What has landed or run green stays so.
LEMMA LandedStays ==
    ASSUME TypeInv, TypeInv', Grown, NEW c \in Consumer, NEW v \in Version
    PROVE  (Landed(c, v) => Landed(c, v)') /\ (Greened(c, v) => Greened(c, v)')
<1>1. /\ Len(origin[c]) \in Nat /\ Len(origin'[c]) \in Nat /\ Len(origin[c]) <= Len(origin'[c])
      /\ green[c] \subseteq 1..Len(origin[c]) /\ green[c] \subseteq green'[c]
      /\ \A n \in 1..Len(origin[c]) : origin'[c][n] = origin[c][n]
    BY DEF TypeInv, TypeOK, Grown
<1>2. \A n \in 1..Len(origin[c]) : n \in 1..Len(origin'[c])
    BY <1>1
<1>3. Landed(c, v) => Landed(c, v)'
    BY <1>1, <1>2 DEF Landed, Holds
<1>4. Greened(c, v) => Greened(c, v)'
    BY <1>1 DEF Greened
<1>5. QED
    BY <1>3, <1>4
-----------------------------------------------------------------------------
(* What the command has done so far *)

\* The consumer at hand: its working tree, then its commit, pins the version.
Prepared ==
    /\ run.pc = "pin" => tree[run.c].deps.v >= run.v
    /\ run.pc \in {"check", "stage", "commit"} => Holds(tree[run.c], run.v)
    /\ run.pc \in {"ahead", "push", "watch", "strict"} => Holds(Tip(run.c), run.v)

\* The consumers the command has pushed or has found pushed.
Behind(d) == d < run.c \/ (d = run.c /\ run.pc \in {"watch", "strict"})

PushedSoFar ==
    run.pc # "idle" /\ run.push =>
        \A d \in Tracks : Behind(d) /\ d \notin run.failed => Landed(d, run.v)
GreenSoFar ==
    run.pc # "idle" /\ run.watch =>
        \A d \in Consumer : d < run.c /\ d \notin run.failed => Greened(d, run.v)

\* A run that has completed with a success was one.
CiTrue == \A d \in Consumer : ci[d].done /\ ci[d].ok => ci[d].n \in green[d]

Reported == OkMeansPushed /\ WatchedMeansGreen
SoFar == PushedSoFar /\ GreenSoFar

Inv == TypeInv /\ Prepared /\ SoFar /\ CiTrue /\ Reported

LEMMA InvInit == Init => Inv
<1> SUFFICES ASSUME Init PROVE Inv
    OBVIOUS
<1>1. TypeInv
    BY TypeInit
<1>2. run.pc = "idle" /\ ~report.push /\ ~report.watch
    BY DEF Init, NoReport
<1>3. CiTrue
    BY DEF Init, CiTrue
<1>4. QED
    BY <1>1, <1>2, <1>3
    DEF Inv, Prepared, SoFar, PushedSoFar, GreenSoFar, Reported, OkMeansPushed, WatchedMeansGreen

\* What was so far still is, when the command goes on and answers for the
\* consumers it newly leaves behind.
LEMMA SoFarKept ==
    ASSUME Inv, TypeInv', Grown, SameCommand, run.pc # "idle",
           \A d \in Tracks : Behind(d)' /\ d \notin run'.failed =>
               (Behind(d) /\ d \notin run.failed) \/ ~run.push \/ Landed(d, run.v)',
           \A d \in Consumer : d < run'.c /\ d \notin run'.failed =>
               (d < run.c /\ d \notin run.failed) \/ ~run.watch \/ Greened(d, run.v)'
    PROVE  SoFar'
<1>1. run.v \in Version /\ run'.v = run.v /\ Tracks \subseteq Consumer
    BY RolloutAssumption DEF Inv, TypeInv, TypeOK, SameCommand, Consumer
<1>2. \A d \in Consumer : (Landed(d, run.v) => Landed(d, run.v)') /\ (Greened(d, run.v) => Greened(d, run.v)')
    <2> SUFFICES ASSUME NEW d \in Consumer
                 PROVE  (Landed(d, run.v) => Landed(d, run.v)') /\ (Greened(d, run.v) => Greened(d, run.v)')
        OBVIOUS
    <2>1. \A v \in Version : (Landed(d, v) => Landed(d, v)') /\ (Greened(d, v) => Greened(d, v)')
        BY LandedStays DEF Inv
    <2>2. QED
        BY <1>1, <2>1 DEF Landed, Greened
<1>3. PushedSoFar'
    <2> SUFFICES ASSUME run'.push, NEW d \in Tracks, Behind(d)', d \notin run'.failed
                 PROVE  Landed(d, run.v)'
        BY <1>1 DEF PushedSoFar
    <2>1. CASE Behind(d) /\ d \notin run.failed
        <3>1. Landed(d, run.v)
            BY <2>1 DEF Inv, SoFar, PushedSoFar, SameCommand
        <3>2. QED
            BY <1>1, <1>2, <3>1
    <2>2. QED
        BY <2>1 DEF SameCommand
<1>4. GreenSoFar'
    <2> SUFFICES ASSUME run'.watch, NEW d \in Consumer, d < run'.c, d \notin run'.failed
                 PROVE  Greened(d, run.v)'
        BY <1>1 DEF GreenSoFar
    <2>1. CASE d < run.c /\ d \notin run.failed
        <3>1. Greened(d, run.v)
            BY <2>1 DEF Inv, SoFar, GreenSoFar, SameCommand
        <3>2. QED
            BY <1>1, <1>2, <3>1
    <2>2. QED
        BY <2>1 DEF SameCommand
<1>5. QED
    BY <1>3, <1>4 DEF SoFar

\* An error for the consumer at hand leaves nothing to answer for.
LEMMA FailKeeps ==
    ASSUME Inv, TypeInv', Grown, UNCHANGED latest, run.pc # "idle", run.c \in Consumer, LeaveFailed
    PROVE  SoFar' /\ Prepared'
<1>1. /\ SameCommand /\ run'.pc \in {"inspect", "report"} /\ run'.c = run.c + 1
      /\ run'.failed = run.failed \cup {run.c}
    BY FailSteps DEF Inv
<1>2. Tracks \subseteq Nat /\ Consumer \subseteq Nat /\ run.c \in Nat
    BY RolloutAssumption DEF Consumer
<1>3. \A d \in Nat : d < run.c + 1 /\ d \notin run'.failed => d < run.c /\ d \notin run.failed
    BY <1>1, <1>2
<1>4. \A d \in Tracks : Behind(d)' /\ d \notin run'.failed => Behind(d) /\ d \notin run.failed
    BY <1>1, <1>2, <1>3 DEF Behind
<1>5. \A d \in Consumer : d < run'.c /\ d \notin run'.failed => d < run.c /\ d \notin run.failed
    BY <1>1, <1>2, <1>3
<1>6. SoFar'
    BY <1>1, <1>4, <1>5, SoFarKept
<1>7. QED
    BY <1>1, <1>6 DEF Prepared

\* Going on with the consumer at hand neither.
LEMMA GotoKeeps ==
    ASSUME Inv, TypeInv', Grown, UNCHANGED latest, run.pc # "idle", run.c \in Consumer,
           NEW pc \in Phase \ {"idle", "report"}, Goto(pc),
           pc \in {"watch", "strict"} => run.pc \in {"watch", "strict"}
    PROVE  SoFar' /\ run'.pc = pc /\ run'.c = run.c /\ SameCommand
<1>1. SameCommand /\ run'.pc = pc /\ run'.c = run.c /\ run'.failed = run.failed
    BY GotoSteps DEF Inv
<1>2. \A d \in Tracks : Behind(d)' => Behind(d)
    BY <1>1 DEF Behind
<1>3. SoFar'
    BY <1>1, <1>2, SoFarKept
<1>4. QED
    BY <1>1, <1>3

\* Leaving the consumer at hand without an error asks that it has landed, and
\* run green when the command watches.
LEMMA DoneKeeps ==
    ASSUME Inv, TypeInv', Grown, UNCHANGED latest, run.pc # "idle", LeaveDone,
           NEW c \in Consumer, run.c = c,
           c \in Tracks => ~run.push \/ Behind(c) \/ Landed(c, run.v)',
           ~run.watch \/ Greened(c, run.v)'
    PROVE  SoFar' /\ Prepared'
<1>1. Leave({}) /\ {} \in SUBSET Consumer
    BY DEF LeaveDone
<1>2. /\ SameCommand /\ run'.pc \in {"inspect", "report"} /\ run'.c = run.c + 1
      /\ run'.failed = run.failed
    BY <1>1, LeaveSteps DEF Inv
<1>3. Tracks \subseteq Nat /\ Consumer \subseteq Nat /\ c \in Nat
    BY RolloutAssumption DEF Consumer
<1>4. \A d \in Nat : d < c + 1 => d < c \/ d = c
    BY <1>3
<1>5. \A d \in Tracks : Behind(d)' /\ d \notin run'.failed =>
          (Behind(d) /\ d \notin run.failed) \/ ~run.push \/ Landed(d, run.v)'
    BY <1>2, <1>3, <1>4 DEF Behind
<1>6. \A d \in Consumer : d < run'.c /\ d \notin run'.failed =>
          (d < run.c /\ d \notin run.failed) \/ ~run.watch \/ Greened(d, run.v)'
    BY <1>2, <1>3, <1>4
<1>7. SoFar'
    BY <1>2, <1>5, <1>6, SoFarKept
<1>8. QED
    BY <1>2, <1>7 DEF Prepared

\* The commit is where it should be.
LEMMA SettleKeeps ==
    ASSUME Inv, TypeInv', Grown, UNCHANGED latest, run.pc # "idle", Settle,
           NEW c \in Consumer, run.c = c,
           c \in Tracks => ~run.push \/ Landed(c, run.v)', Holds(Tip(c), run.v)'
    PROVE  SoFar' /\ Prepared'
<1>1. CASE run.watch
    <2>1. Goto("watch") /\ "watch" \in Phase \ {"idle", "report"}
        BY <1>1 DEF Settle, Phase
    <2>2. SameCommand /\ run'.pc = "watch" /\ run'.c = run.c /\ run'.failed = run.failed
        BY <2>1, GotoSteps DEF Inv
    <2>3. \A d \in Tracks : Behind(d)' => Behind(d) \/ d = c
        BY <2>2 DEF Behind
    <2>4. SoFar'
        BY <2>2, <2>3, SoFarKept
    <2>5. QED
        BY <2>2, <2>4 DEF Prepared
<1>2. CASE ~run.watch
    <2>1. LeaveDone
        BY <1>2 DEF Settle
    <2>2. QED
        BY <1>2, <2>1, DoneKeeps
<1>3. QED
    BY <1>1, <1>2

\* What a report says stays true.
LEMMA ReportedStays ==
    ASSUME Inv, TypeInv', Grown, UNCHANGED report
    PROVE  Reported'
<1>1. report.v \in Version /\ report'.v = report.v /\ Tracks \subseteq Consumer
    BY RolloutAssumption DEF Inv, TypeInv, TypeOK, Consumer
<1>2. ASSUME NEW d \in Consumer
      PROVE  (Landed(d, report.v) => Landed(d, report.v)') /\ (Greened(d, report.v) => Greened(d, report.v)')
    <2>1. \A v \in Version : (Landed(d, v) => Landed(d, v)') /\ (Greened(d, v) => Greened(d, v)')
        BY LandedStays DEF Inv
    <2>2. QED
        BY <1>1, <2>1 DEF Landed, Greened
<1>3. OkMeansPushed'
    BY <1>1, <1>2 DEF Inv, Reported, OkMeansPushed, Ok, Landed, Holds
<1>4. WatchedMeansGreen'
    BY <1>1, <1>2 DEF Inv, Reported, WatchedMeansGreen, Ok, Greened
<1>5. QED
    BY <1>3, <1>4 DEF Reported

LEMMA CiTrueStep == TypeInv /\ CiTrue /\ [Next]_vars => CiTrue'
<1> SUFFICES ASSUME TypeInv, CiTrue, [Next]_vars PROVE CiTrue'
    OBVIOUS
<1>1. CASE UNCHANGED <<ci, green>>
    BY <1>1 DEF CiTrue
<1>2. ASSUME NEW c \in Consumer, CiStart(c) PROVE CiTrue'
    BY <1>2 DEF CiStart, CiTrue, TypeInv, TypeOK
<1>3. ASSUME NEW c \in Consumer, NEW ok \in BOOLEAN, CiComplete(c, ok) PROVE CiTrue'
    <2>1. ci' = [ci EXCEPT ![c] = [ci[c] EXCEPT !.done = TRUE, !.ok = ok]]
        BY <1>3 DEF CiComplete, TypeInv, TypeOK
    <2>2. /\ \A d \in Consumer : ci'[d].n = ci[d].n
          /\ \A d \in Consumer \ {c} : ci'[d] = ci[d]
          /\ ci'[c].ok = ok
        BY <2>1 DEF TypeInv, TypeOK
    <2>3. /\ ok => green' = [green EXCEPT ![c] = green[c] \cup {ci[c].n}]
          /\ ~ok => green' = green
        BY <1>3 DEF CiComplete
    <2>4. \A d \in Consumer : green[d] \subseteq green'[d]
        <3>1. CASE ok
            <4>1. \A d \in Consumer : green'[d] = IF d = c THEN green[c] \cup {ci[c].n} ELSE green[d]
                BY <2>3, <3>1 DEF TypeInv, TypeOK
            <4>2. QED
                BY <4>1
        <3>2. CASE ~ok
            BY <2>3, <3>2
        <3>3. QED
            BY <3>1, <3>2
    <2>5. ok => ci[c].n \in green'[c]
        BY <2>3 DEF TypeInv, TypeOK
    <2>6. \A d \in Consumer \ {c} : ci'[d].done /\ ci'[d].ok => ci'[d].n \in green'[d]
        BY <2>2, <2>4 DEF CiTrue
    <2>7. QED
        BY <2>2, <2>5, <2>6 DEF CiTrue
<1>4. QED
    BY <1>1, <1>2, <1>3
    DEF Next, Step, Inspect, Sanitize, Install, Pin, Check, Stage, Commit, Ahead, Push, PushRejected,
        Watch, Timeout, InspectStrictly, Report, Fail, Kill, Publish, Roll, Edit, CommitByHand,
        Discard, Reset, Contribute, vars, remote, bounds

\* Nothing is owed while no command runs, and by one that stays where it is.
LEMMA IdleKeeps == ASSUME run'.pc = "idle" PROVE SoFar' /\ Prepared'
BY DEF SoFar, PushedSoFar, GreenSoFar, Prepared

LEMMA StillKeeps ==
    ASSUME Inv, TypeInv', Grown, UNCHANGED run
    PROVE  SoFar'
<1>1. CASE run.pc = "idle"
    BY <1>1, IdleKeeps
<1>2. CASE run.pc # "idle"
    <2>1. SameCommand /\ \A d \in Tracks : Behind(d)' => Behind(d)
        BY DEF SameCommand, Behind
    <2>2. QED
        BY <1>2, <2>1, SoFarKept
<1>3. QED
    BY <1>1, <1>2

\* The end of a history pushed or found pushed is a commit of the remote main.
LEMMA TipLands ==
    ASSUME TypeInv, NEW c \in Consumer, NEW n \in 1..Len(origin[c]), NEW v \in Version,
           local[c] = SubSeq(origin[c], 1, n), Holds(Tip(c), v)
    PROVE  Landed(c, v) /\ Tip(c) = origin[c][n]
<1>1. origin[c] \in Seq(Content) /\ n \in Nat /\ n >= 1 /\ n <= Len(origin[c])
    BY DEF TypeInv, TypeOK
<1>2. Len(local[c]) = n /\ local[c][n] = origin[c][n]
    BY <1>1
<1>3. QED
    BY <1>2 DEF Tip, Landed

LEMMA RunStep ==
    ASSUME Inv, TypeInv', Grown, Step
    PROVE  SoFar' /\ Prepared'
<1> USE DEF At
<1>0. run.pc \notin {"idle", "report"} => run.c \in Consumer
    BY DEF Inv, TypeInv, TypeOK
<1>v. TypeInv /\ TypeOK /\ run.v \in Version /\ run.v <= latest /\ run.v \in Nat /\ latest \in Nat
    BY RolloutAssumption DEF Inv, TypeInv, TypeOK, Placed, Version
<1>t. \A c \in Consumer : tree[c] \in Content /\ tree[c].deps \in [v : Version, whole : BOOLEAN]
    BY DEF Inv, TypeInv, TypeOK, Content
<1>1. CASE Inspect
    <2>1. CASE Goto("sanitize")
        BY <1>0, <1>1, <2>1, GotoKeeps DEF Inspect, Phase, remote, Prepared
    <2>2. CASE LeaveFailed
        BY <1>0, <1>1, <2>2, FailKeeps DEF Inspect, remote
    <2>3. QED
        BY <1>1, <2>1, <2>2 DEF Inspect
<1>2. CASE Sanitize
    BY <1>0, <1>2, GotoKeeps DEF Sanitize, Phase, remote, Prepared
<1>3. CASE Install
    <2>1. SoFar' /\ run'.pc = "pin" /\ run'.c = run.c /\ SameCommand
        BY <1>0, <1>3, GotoKeeps DEF Install, Phase, remote
    <2>2. tree'[run.c].deps.v = latest
        BY <1>0, <1>t, <1>3 DEF Install, Inv, TypeInv, TypeOK, Content
    <2>3. QED
        BY <1>v, <2>1, <2>2 DEF Prepared, SameCommand
<1>4. CASE Pin
    <2>1. SoFar' /\ run'.pc = "check" /\ run'.c = run.c /\ SameCommand
        BY <1>0, <1>4, GotoKeeps DEF Pin, Phase, remote
    <2>2. tree'[run.c].deps = tree[run.c].deps /\ tree'[run.c].pin = run.v
        BY <1>0, <1>t, <1>4 DEF Pin, Inv, TypeInv, TypeOK, Content
    <2>3. tree[run.c].deps.v >= run.v
        BY <1>4 DEF Pin, Inv, Prepared
    <2>4. QED
        BY <2>1, <2>2, <2>3 DEF Prepared, SameCommand, Holds
<1>5. CASE Check
    <2>1. SoFar' /\ run'.pc = "stage" /\ run'.c = run.c /\ SameCommand
        BY <1>0, <1>5, GotoKeeps DEF Check, Phase, remote
    <2>2. Holds(tree[run.c], run.v) /\ UNCHANGED tree
        BY <1>5 DEF Check, Inv, Prepared, git
    <2>3. QED
        BY <2>1, <2>2 DEF Prepared, SameCommand, Holds
<1>s. ASSUME run.c \in Consumer PROVE /\ Staged(run.c).pin = tree[run.c].pin
                                       /\ Staged(run.c).deps = tree[run.c].deps
    BY <1>s, <1>t DEF Staged, Content
<1>6. CASE Stage
    <2>0. /\ run.c \in Consumer /\ UNCHANGED <<git, remote>>
          /\ Holds(tree[run.c], run.v)
        BY <1>0, <1>6 DEF Stage, Inv, Prepared
    <2>1. CASE Goto("commit")
        <3>1. SoFar' /\ run'.pc = "commit" /\ run'.c = run.c /\ SameCommand
            BY <2>0, <1>6, <2>1, GotoKeeps DEF Stage, Phase, remote
        <3>2. QED
            BY <2>0, <3>1 DEF Prepared, SameCommand, Holds, git
    <2>2. CASE Staged(run.c) = Tip(run.c) /\ (Goto("ahead") \/ (~run.push /\ Settle))
        <3>1. Holds(Tip(run.c), run.v)
            BY <1>s, <2>0, <2>2 DEF Holds
        <3>2. CASE Goto("ahead")
            <4>1. SoFar' /\ run'.pc = "ahead" /\ run'.c = run.c /\ SameCommand
                BY <2>0, <1>6, <3>2, GotoKeeps DEF Stage, Phase, remote
            <4>2. QED
                BY <2>0, <3>1, <4>1 DEF Prepared, SameCommand, Holds, git, Tip
        <3>3. CASE ~run.push /\ Settle
            <4>1. ~run.watch
                BY <3>3, <1>v DEF TypeInv, Placed
            <4>2. LeaveDone
                BY <3>3, <4>1 DEF Settle
            <4>3. QED
                BY <2>0, <1>6, <3>3, <4>1, <4>2, DoneKeeps DEF Stage, remote
        <3>4. QED
            BY <2>2, <3>2, <3>3
    <2>3. QED
        BY <1>6, <2>1, <2>2 DEF Stage
<1>7. CASE Commit
    <2>0. /\ run.c \in Consumer /\ UNCHANGED <<tree, origin, tracked, remote>>
          /\ Holds(tree[run.c], run.v)
        BY <1>0, <1>7 DEF Commit, Inv, Prepared
    <2>1. /\ local[run.c] \in Seq(Content) /\ Staged(run.c) \in Content
          /\ local'[run.c] = Append(local[run.c], Staged(run.c))
        BY <2>0, <1>7, <1>v, StagedType DEF Commit, Inv, TypeInv, TypeOK
    <2>2. local'[run.c][Len(local'[run.c])] = Staged(run.c)
        BY <2>1
    <2>3. ASSUME NEW c \in Consumer, c = run.c PROVE Tip(c)' = Staged(run.c)
        BY <2>2, <2>3 DEF Tip
    <2>4. CASE Goto("push")
        <3>1. SoFar' /\ run'.pc = "push" /\ run'.c = run.c /\ SameCommand
            BY <2>0, <1>7, <2>4, GotoKeeps DEF Commit, Phase, remote
        <3>2. QED
            BY <1>s, <2>0, <2>2, <3>1 DEF Prepared, SameCommand, Holds, Tip
    <2>5. CASE ~run.push /\ Settle
        <3>1. ~run.watch
            BY <2>5, <1>v DEF TypeInv, Placed
        <3>2. LeaveDone
            BY <2>5, <3>1 DEF Settle
        <3>3. QED
            BY <2>0, <1>7, <2>5, <3>1, <3>2, DoneKeeps DEF Commit, remote
    <2>6. QED
        BY <1>7, <2>4, <2>5 DEF Commit
<1>8. CASE Ahead
    <2>0. /\ run.c \in Consumer /\ UNCHANGED <<git, remote>>
          /\ Holds(Tip(run.c), run.v)
        BY <1>0, <1>8 DEF Ahead, Inv, Prepared
    <2>1. CASE Goto("push")
        <3>1. SoFar' /\ run'.pc = "push" /\ run'.c = run.c /\ SameCommand
            BY <2>0, <1>8, <2>1, GotoKeeps DEF Ahead, Phase, remote
        <3>2. QED
            BY <2>0, <3>1 DEF Prepared, SameCommand, Holds, git, Tip
    <2>2. ASSUME NEW c \in Consumer, c = run.c, Settle,
                 c \in Tracks => Extends(SubSeq(origin[c], 1, tracked[c]), local[c])
          PROVE  SoFar' /\ Prepared'
        <3>1. Settle => run'.v = run.v
            BY <2>0, <2>2, <1>v, SettleSteps DEF remote, SameCommand
        <3>2. Holds(Tip(c), run.v)'
            BY <2>0, <2>2, <3>1 DEF git, Tip, Holds
        <3>3. ASSUME c \in Tracks PROVE Landed(c, run.v)
            <4>1. /\ origin[c] \in Seq(Content) /\ local[c] \in Seq(Content) /\ Len(local[c]) >= 1
                  /\ tracked[c] \in 1..Len(origin[c])
                BY <1>v DEF TypeOK
            <4>2. Extends(SubSeq(origin[c], 1, tracked[c]), local[c])
                BY <2>2, <3>3
            <4>3. /\ Len(SubSeq(origin[c], 1, tracked[c])) = tracked[c]
                  /\ SubSeq(origin[c], 1, tracked[c]) \in Seq(Content)
                BY <4>1
            <4>4. /\ Len(local[c]) <= tracked[c]
                  /\ SubSeq(SubSeq(origin[c], 1, tracked[c]), 1, Len(local[c])) = local[c]
                BY <4>2, <4>3 DEF Extends
            <4>5. Len(local[c]) \in 1..Len(origin[c])
                BY <4>1, <4>4
            <4>6. local[c][Len(local[c])] = origin[c][Len(local[c])]
                BY <4>1, <4>3, <4>4, <4>5
            <4>7. QED
                BY <2>0, <2>2, <4>5, <4>6 DEF Tip, Landed
        <3>4. c \in Tracks => Landed(c, run.v)'
            BY <2>0, <2>2, <3>1, <3>3 DEF git, Landed, Holds
        <3>5. QED
            BY <2>0, <1>8, <2>2, <3>2, <3>4, SettleKeeps DEF Ahead, remote
    <2>3. QED
        BY <2>0, <1>8, <2>1, <2>2 DEF Ahead
<1>9. CASE Push
    <2>0. /\ run.c \in Consumer /\ UNCHANGED <<local, tree, remote>> /\ Settle
          /\ Holds(Tip(run.c), run.v) /\ origin' = Received(run.c)
        BY <1>0, <1>9 DEF Push, Inv, Prepared
    <2>1. PICK c \in Consumer : c = run.c
        BY <2>0
    <2>2. run'.v = run.v
        BY <2>0, <1>v, SettleSteps DEF remote, SameCommand
    <2>3. Holds(Tip(c), run.v)'
        BY <2>0, <2>1, <2>2 DEF Tip, Holds
    <2>4. ASSUME c \in Tracks PROVE Landed(c, run.v)'
        <3>1. c \in OnMain /\ origin'[c] = local[c]
            BY <2>0, <2>1, <2>4, RolloutAssumption, <1>v DEF Received, TypeOK
        <3>2. Len(local[c]) \in 1..Len(local[c])
            BY <1>v DEF TypeOK
        <3>3. QED
            BY <2>0, <2>1, <2>2, <3>1, <3>2 DEF Landed, Tip, Holds
    <2>5. QED
        BY <2>0, <2>1, <2>3, <2>4, <1>9, SettleKeeps DEF Push, remote
<1>10. CASE PushRejected
    BY <1>0, <1>10, FailKeeps DEF PushRejected, remote
<1>11. CASE Watch
    <2>1. SoFar' /\ run'.pc = "strict" /\ run'.c = run.c /\ SameCommand
        BY <1>0, <1>11, GotoKeeps DEF Watch, Phase, remote
    <2>2. Holds(Tip(run.c), run.v) /\ UNCHANGED local
        BY <1>11 DEF Watch, Inv, Prepared, git
    <2>3. QED
        BY <2>1, <2>2 DEF Prepared, SameCommand, Holds, Tip
<1>12. CASE Timeout
    BY <1>0, <1>12, FailKeeps DEF Timeout, remote
<1>13. CASE InspectStrictly
    <2>0. /\ run.c \in Consumer /\ UNCHANGED <<git, remote>>
          /\ Holds(Tip(run.c), run.v) /\ run.pc = "strict"
        BY <1>0, <1>13 DEF InspectStrictly, Inv, Prepared
    <2>1. CASE LeaveFailed
        BY <2>0, <1>13, <2>1, FailKeeps DEF remote
    <2>2. ASSUME Succeeded(run.c), LeaveDone PROVE SoFar' /\ Prepared'
        <3>1. PICK c \in Consumer : c = run.c
            BY <2>0
        <3>2. run'.v = run.v
            BY <2>0, <1>v, <2>2, LeaveSteps DEF remote, SameCommand, LeaveDone
        <3>3. /\ local[c] = SubSeq(origin[c], 1, ci[c].n) /\ ci[c].n \in green[c]
              /\ ci[c].n \in 1..Len(origin[c])
            BY <2>2, <3>1, <1>v DEF Succeeded, OnHead, Inv, CiTrue, TypeOK
        <3>4. origin[c][ci[c].n].pin = run.v
            BY <2>0, <3>1, <3>3, <1>v, TipLands DEF Holds
        <3>5. Greened(c, run.v)'
            BY <2>0, <3>2, <3>3, <3>4 DEF Greened, git, remote
        <3>6. Behind(c)
            BY <2>0, <3>1 DEF Behind
        <3>7. QED
            BY <2>0, <2>2, <3>1, <3>5, <3>6, DoneKeeps DEF remote
    <2>3. QED
        BY <1>13, <2>1, <2>2 DEF InspectStrictly
<1>14. CASE Report
    BY <1>14, IdleKeeps DEF Report, Idle
<1>15. QED
    BY <1>1, <1>2, <1>3, <1>4, <1>5, <1>6, <1>7, <1>8, <1>9, <1>10, <1>11, <1>12, <1>13, <1>14 DEF Step

LEMMA NextStep ==
    ASSUME Inv, TypeInv', Grown, [Next]_vars
    PROVE  SoFar' /\ Prepared'
<1> USE DEF At
<1>0. run.pc \notin {"idle", "report"} => run.c \in Consumer
    BY DEF Inv, TypeInv, TypeOK
<1>1. CASE Step
    BY <1>1, RunStep
<1>2. CASE Fail
    BY <1>0, <1>2, FailKeeps DEF Fail, remote
<1>3. CASE Kill
    BY <1>3, IdleKeeps DEF Kill, Idle
<1>4. ASSUME NEW v \in Version, NEW push \in BOOLEAN, NEW watch \in BOOLEAN, Roll(v, push, watch)
      PROVE  SoFar' /\ Prepared'
    <2>1. run'.pc = "inspect" /\ run'.c = 1 /\ \A d \in Consumer : ~(d < 1)
        BY <1>4 DEF Roll, Consumer
    <2>2. \A d \in Tracks : ~Behind(d)'
        BY <2>1, RolloutAssumption DEF Behind, Consumer
    <2>3. QED
        BY <2>1, <2>2 DEF SoFar, PushedSoFar, GreenSoFar, Prepared
<1>5. ASSUME NEW c \in Consumer, Edit(c) PROVE SoFar' /\ Prepared'
    <2>1. \A d \in Consumer : tree'[d].deps = tree[d].deps /\ tree'[d].pin = tree[d].pin
        <3>1. tree' = [tree EXCEPT ![c] = [tree[c] EXCEPT !.work = tree[c].work + 1]]
            BY <1>5 DEF Edit
        <3>2. /\ [tree[c] EXCEPT !.work = tree[c].work + 1].deps = tree[c].deps
              /\ [tree[c] EXCEPT !.work = tree[c].work + 1].pin = tree[c].pin
            BY DEF Inv, TypeInv, TypeOK, Content
        <3>3. QED
            BY <3>1, <3>2 DEF Inv, TypeInv, TypeOK
    <2>2. UNCHANGED <<run, local>>
        BY <1>5 DEF Edit
    <2>3. SoFar'
        BY <2>2, StillKeeps
    <2>4. QED
        BY <1>0, <2>1, <2>2, <2>3 DEF Inv, Prepared, Holds, Tip
<1>6. CASE \E c \in Consumer : CommitByHand(c) \/ Discard(c) \/ Reset(c)
    BY <1>6, IdleKeeps DEF CommitByHand, Discard, Reset
<1>7. CASE UNCHANGED <<run, tree, local>>
    BY <1>7, StillKeeps DEF Inv, Prepared, Holds, Tip
<1>8. CASE Publish \/ \E c \in Consumer : Contribute(c) \/ CiStart(c) \/ \E ok \in BOOLEAN : CiComplete(c, ok)
    BY <1>7, <1>8 DEF Publish, Contribute, CiStart, CiComplete, git
<1>9. QED
    BY <1>1, <1>2, <1>3, <1>4, <1>5, <1>6, <1>7, <1>8 DEF Next, vars

\* The report adds up what the command has done.
LEMMA ReportedStep ==
    ASSUME Inv, TypeInv', Grown, [Next]_vars
    PROVE  Reported'
<1>1. CASE UNCHANGED report
    BY <1>1, ReportedStays
<1>2. CASE Report
    <2>1. /\ report'.v = run.v /\ report'.push = run.push /\ report'.watch = run.watch
          /\ report'.failed = run.failed /\ UNCHANGED <<origin, green>>
        BY <1>2 DEF Report, git, remote
    <2>2. run.pc = "report" /\ run.c = Consumers + 1
        BY <1>2 DEF Report, At, Inv, TypeInv, Placed
    <2>3. \A d \in Consumer : d < run.c
        BY <2>2, RolloutAssumption DEF Consumer
    <2>4. Tracks \subseteq Consumer
        BY RolloutAssumption DEF Consumer
    <2>5. run.push /\ run.failed = {} => \A d \in Tracks : Landed(d, run.v)
        BY <2>2, <2>3, <2>4 DEF Inv, SoFar, PushedSoFar, Behind
    <2>6. run.watch /\ run.failed = {} => \A d \in Consumer : Greened(d, run.v)
        BY <2>2, <2>3 DEF Inv, SoFar, GreenSoFar
    <2>7. OkMeansPushed'
        BY <2>1, <2>5 DEF OkMeansPushed, Ok, Landed, Holds
    <2>8. WatchedMeansGreen'
        BY <2>1, <2>6 DEF WatchedMeansGreen, Ok, Greened
    <2>9. QED
        BY <2>7, <2>8 DEF Reported
<1>3. CASE \E v \in Version, push, watch \in BOOLEAN : Roll(v, push, watch)
    BY <1>3 DEF Roll, NoReport, Reported, OkMeansPushed, WatchedMeansGreen
<1>4. QED
    BY <1>1, <1>2, <1>3
    DEF Next, Step, Inspect, Sanitize, Install, Pin, Check, Stage, Commit, Ahead, Push, PushRejected,
        Watch, Timeout, InspectStrictly, Fail, Kill, Publish, Edit, CommitByHand, Discard, Reset,
        Contribute, CiStart, CiComplete, vars

LEMMA InvStep == Inv /\ [Next]_vars => Inv'
<1> SUFFICES ASSUME Inv, [Next]_vars PROVE Inv'
    OBVIOUS
<1>1. TypeInv' /\ Grown /\ CiTrue'
    BY TypeStep, GrownStep, CiTrueStep DEF Inv
<1>2. SoFar' /\ Prepared' /\ Reported'
    BY <1>1, NextStep, ReportedStep
<1>3. QED
    BY <1>1, <1>2 DEF Inv

\* A push rollout that reports no error has left the version on the remote main
\* of every consumer that tracks one.
THEOREM RolloutLands == Spec => []OkMeansPushed
<1>1. Inv => OkMeansPushed
    BY DEF Inv, Reported
<1>2. QED
    BY InvInit, InvStep, <1>1, PTL DEF Spec

\* A watched one has seen the workflow succeed on a commit that pins it.
THEOREM WatchedRolloutIsGreen == Spec => []WatchedMeansGreen
<1>1. Inv => WatchedMeansGreen
    BY DEF Inv, Reported
<1>2. QED
    BY InvInit, InvStep, <1>1, PTL DEF Spec

EditsType == edits \in Nat

LEMMA EditsStep == EditsType /\ [Next]_vars => EditsType'
<1> SUFFICES ASSUME edits \in Nat, [Next]_vars PROVE edits' \in Nat
    BY DEF EditsType
<1>1. CASE UNCHANGED edits
    BY <1>1
<1>2. CASE edits' = edits + 1
    BY <1>2
<1>3. CASE Step
    BY <1>1, <1>3
    DEF Step, Inspect, Sanitize, Install, Pin, Check, Stage, Commit, Ahead, Push, PushRejected,
        Watch, Timeout, InspectStrictly, Report, bounds
<1>4. QED
    BY <1>1, <1>2, <1>3
    DEF Next, Fail, Kill, Publish, Roll, Edit, CommitByHand, Discard, Reset, Contribute, CiStart,
        CiComplete, vars, bounds

LEMMA PinsStep == TypeInv /\ EditsType /\ [Next]_vars => OnlyPins
<1> SUFFICES ASSUME TypeInv, edits \in Nat, [Next]_vars, edits' = edits, run.pc # "idle",
                    NEW c \in Consumer
             PROVE  /\ tree'[c].work = tree[c].work
                    /\ Len(local'[c]) > Len(local[c]) =>
                           local'[c][Len(local'[c])].work = Tip(c).work
    BY DEF OnlyPins, EditsType
<1> USE DEF At
<1>0. run.pc # "report" => run.c \in Consumer
    BY DEF TypeInv, TypeOK
<1>t. /\ \A d \in Consumer : tree[d] \in Content /\ tree[d].deps \in [v : Version, whole : BOOLEAN]
      /\ Tip(c) \in Content /\ local[c] \in Seq(Content)
    BY TipType DEF TypeInv, TypeOK, Content
<1>1. CASE UNCHANGED <<tree, local>>
    BY <1>1, <1>t
<1>2. CASE UNCHANGED local /\ tree'[c].work = tree[c].work
    BY <1>2, <1>t
<1>3. CASE Sanitize
    <2>1. tree'[c].work = tree[c].work
        BY <1>0, <1>3, <1>t DEF Sanitize, TypeInv, TypeOK, Content
    <2>2. QED
        BY <1>2, <1>3, <2>1 DEF Sanitize
<1>4. CASE Install
    <2>1. tree'[c].work = tree[c].work
        BY <1>0, <1>4, <1>t DEF Install, TypeInv, TypeOK, Content
    <2>2. QED
        BY <1>2, <1>4, <2>1 DEF Install
<1>5. CASE Pin
    <2>1. tree'[c].work = tree[c].work
        BY <1>0, <1>5, <1>t DEF Pin, TypeInv, TypeOK, Content
    <2>2. QED
        BY <1>2, <1>5, <2>1 DEF Pin
<1>6. CASE Commit
    <2>1. Staged(c) \in Content /\ Staged(c).work = Tip(c).work
        BY <1>t, StagedType DEF TypeInv, Staged, Content
    <2>2. UNCHANGED tree /\ local'[c] = IF c = run.c THEN Append(local[c], Staged(c)) ELSE local[c]
        BY <1>0, <1>6 DEF Commit, TypeInv, TypeOK
    <2>3. QED
        BY <1>t, <2>1, <2>2
<1>7. CASE \E d \in Consumer : Edit(d) \/ CommitByHand(d) \/ Discard(d) \/ Reset(d)
    BY <1>7 DEF Edit, CommitByHand, Discard, Reset
<1>8. QED
    BY <1>1, <1>3, <1>4, <1>5, <1>6, <1>7
    DEF Next, Step, Inspect, Check, Stage, Ahead, Push, PushRejected, Watch, Timeout, InspectStrictly,
        Report, Fail, Kill, Publish, Roll, Contribute, CiStart, CiComplete, vars, git

\* While a command runs, only the pins are committed and nothing else is touched
\* except by the humans.
THEOREM RolloutCommitsPins == Spec => PinsOnly
<1>1. Init => EditsType
    BY DEF Init, EditsType
<1>2. QED
    BY <1>1, TypeInit, TypeStep, EditsStep, PinsStep, PTL DEF Spec, PinsOnly
=============================================================================

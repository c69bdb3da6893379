---------------------------- MODULE SharedParses ----------------------------
(***************************************************************************)
(* What the parse cache promises the programs of a drain, with no tables,  *)
(* threads or locks: a file is parsed at most once in a drain, as it is on *)
(* disk at one moment of it; every answer is that parse; and nothing is    *)
(* answered only for a file that was not there at some moment of the       *)
(* drain.  ParseCache implements it.                                       *)
(***************************************************************************)
EXTENDS Naturals

CONSTANT Files     \* the files that programs share

VARIABLES disk,    \* the version of each file, 0 while it does not exist
          memo,    \* its parse in this drain, 0 while there is none
          absent,  \* the files that were found missing in this drain
          answers  \* the parses handed out in this drain, 0 for none

vars == <<disk, memo, absent, answers>>

NoParses == [f \in Files |-> 0]
NoAnswers == [f \in Files |-> {}]

Init ==
  /\ disk \in [Files -> {0, 1}]
  /\ memo = NoParses /\ absent = {} /\ answers = NoAnswers

Save(fs) ==
  /\ disk' = [f \in Files |-> IF f \in fs THEN disk[f] + 1 ELSE disk[f]]
  /\ UNCHANGED <<memo, absent, answers>>

Parse(f) ==
  /\ memo[f] = 0 /\ disk[f] # 0
  /\ memo' = [memo EXCEPT ![f] = disk[f]]
  /\ UNCHANGED <<disk, absent, answers>>

FindNothing(f) ==
  /\ memo[f] = 0 /\ disk[f] = 0
  /\ absent' = absent \cup {f}
  /\ UNCHANGED <<disk, memo, answers>>

Answer(f) ==
  /\ memo[f] # 0
  /\ answers' = [answers EXCEPT ![f] = @ \cup {memo[f]}]
  /\ UNCHANGED <<disk, memo, absent>>

AnswerNothing(f) ==
  /\ f \in absent
  /\ answers' = [answers EXCEPT ![f] = @ \cup {0}]
  /\ UNCHANGED <<disk, memo, absent>>

NextDrain ==
  /\ memo' = NoParses /\ absent' = {} /\ answers' = NoAnswers
  /\ UNCHANGED disk

Next ==
  \/ \E fs \in SUBSET Files : Save(fs)
  \/ \E f \in Files : Parse(f) \/ FindNothing(f) \/ Answer(f) \/ AnswerNothing(f)
  \/ NextDrain

Spec == Init /\ [][Next]_vars
=============================================================================

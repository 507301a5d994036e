---------------------------- MODULE EvalLegProofs ----------------------------
(***************************************************************************)
(* What a verdict of `rof eval' may stand for, proved for any slice, any   *)
(* number of passes over one --out-dir and any number of failing calls.    *)
(***************************************************************************)
EXTENDS EvalLeg, SequenceTheorems, TLAPS

Underway == pass.pc \notin {"off", "report", "done"}
Early == pass.pc \in {"home", "wipe", "seed", "preclean", "boot"}
Living == pass.pc \in {"agent", "grade", "verify"}
Over == pass.pc \in {"remove", "row"}

\* Where the pass is.
PlaceInv ==
    /\ Underway => pass.at \in DOMAIN Slice /\ pass.n # 0
    /\ pass.pc \in {"boot", "preclean", "remove"} => InBox

\* What is known of the current instance when.
CellInv ==
    /\ Underway /\ ~Over => cell.verdict = "none"
    /\ Early \/ pass.pc \in {"agent", "grade"} => cell.wrote = "none"
    /\ pass.pc = "verify" => cell.timely /\ (pass.mode # "plain" => cell.ended)
    /\ cell.wrote # "none" => cell.ran
    /\ pass.pc = "grade" /\ pass.mode # "plain" /\ disk[Id].dump.ended => cell.ended

\* CapabilityGrounded, from the moment the verdict falls.
GroundInv ==
    Over /\ cell.verdict \in Capability =>
        /\ cell.timely
        /\ pass.mode # "plain" => cell.ended
        /\ cell.ran \/ (cell.wrote = "none" /\ Mark # "none")

\* A container bears the number of a pass only if that pass has come as far as to start it.
BoxInv ==
    /\ \A id \in Ids : box[id].run <= pass.n
    /\ Underway => \A j \in DOMAIN Slice :
           j > pass.at \/ (j = pass.at /\ Early) \/ ~InBox => box[Slice[j]].run # pass.n
    /\ Living /\ InBox => box[Id].run = pass.n
    /\ pass.pc = "row" /\ box[Id].run = pass.n /\ box[Id].alive => cell.leaks

\* A verifier of this pass is one of an instance that is over.
StrayInv ==
    /\ \A s \in strays : s.run <= pass.n
    /\ Underway => \A s \in strays, j \in DOMAIN Slice :
           /\ s.mode = "container" /\ s.run = pass.n
           /\ j > pass.at \/ (j = pass.at /\ ~Over)
           => s.id # Slice[j]

\* VerdictAsWritten, from the first write on.
WrittenInv ==
    /\ pass.pc = "verify" /\ InBox /\ cell.wrote # "none" => Mark = cell.wrote
    /\ Over /\ InBox /\ cell.timely /\ cell.wrote # "none" => cell.verdict = FromMark(cell.wrote)

\* RerunScores, along an instance in which no call has failed yet.
CleanInv ==
    InBox /\ Underway /\ Id \in HasImage /\ ~cell.faulty =>
        /\ pass.pc = "seed" => ~disk[Id].root
        /\ pass.pc \notin {"home", "wipe", "seed"} => cell.clean
        /\ pass.pc = "boot" => box[Id] = NoBox
        /\ Living => box[Id].alive
        /\ pass.pc = "grade" => disk[Id].dump.ended
        /\ Over => cell.verdict # "InfraFailure"

EvalInv ==
    /\ TypeOK /\ PlaceInv /\ CellInv /\ GroundInv
    /\ BoxInv /\ StrayInv /\ WrittenInv /\ CleanInv

-----------------------------------------------------------------------------
(* What the updates of the records do. *)

LEMMA CurrentId == ASSUME PlaceInv, Underway PROVE Id \in Ids
BY DEF PlaceInv, Id, Ids

\* The ids of a slice differ.
LEMMA Later ==
    ASSUME pass.at \in DOMAIN Slice, NEW j \in DOMAIN Slice, j > pass.at
    PROVE  Slice[j] # Id
BY EvalAssumption, LenProperties DEF Id

LEMMA GotoFields ==
    ASSUME TypeOK, NEW pc \in PCs, Goto(pc)
    PROVE  /\ pass' \in PassType
           /\ pass'.pc = pc /\ pass'.n = pass.n /\ pass'.mode = pass.mode /\ pass'.at = pass.at
           /\ Id' = Id /\ InBox' = InBox
<1>1. pass \in PassType
  BY DEF TypeOK
<1>2. pass' = [n |-> pass.n, mode |-> pass.mode, at |-> pass.at, rows |-> pass.rows,
               code |-> pass.code, pc |-> pc]
  BY <1>1 DEF Goto, PassType
<1>3. /\ pass' \in PassType
      /\ pass'.pc = pc /\ pass'.n = pass.n /\ pass'.mode = pass.mode /\ pass'.at = pass.at
  BY <1>1, <1>2 DEF PassType
<1> QED BY <1>3 DEF Id, InBox

LEMMA QuitFields ==
    ASSUME TypeOK, NEW code \in {0, 2}, Quit(code)
    PROVE  /\ pass' \in PassType
           /\ pass'.pc = "done" /\ pass'.n = pass.n /\ pass'.mode = pass.mode
           /\ pass'.at = pass.at
<1>1. pass \in PassType
  BY DEF TypeOK
<1>2. pass' = [n |-> pass.n, mode |-> pass.mode, at |-> pass.at, rows |-> pass.rows,
               code |-> code, pc |-> "done"]
  BY <1>1 DEF Quit, PassType
<1> QED BY <1>1, <1>2 DEF PassType, PCs

LEMMA NotingFields ==
    ASSUME NEW c \in CellType, NEW ok \in BOOLEAN
    PROVE  /\ Noting(ok, c) \in CellType
           /\ Noting(ok, c).verdict = c.verdict /\ Noting(ok, c).clean = c.clean
           /\ Noting(ok, c).ended = c.ended /\ Noting(ok, c).ran = c.ran
           /\ Noting(ok, c).wrote = c.wrote /\ Noting(ok, c).timely = c.timely
           /\ Noting(ok, c).leaks = c.leaks
           /\ ~Noting(ok, c).faulty => ~c.faulty /\ ok
BY DEF Noting, CellType

LEMMA FailingFields ==
    ASSUME NEW c \in CellType
    PROVE  /\ Failing(c) \in CellType
           /\ Failing(c).verdict = "InfraFailure" /\ Failing(c).clean = c.clean
           /\ Failing(c).wrote = c.wrote /\ Failing(c).timely = c.timely
           /\ Failing(c).faulty = c.faulty /\ Failing(c).ran = c.ran
           /\ Failing(c).leaks = c.leaks
BY DEF Failing, CellType, Verdicts

LEMMA CleanField ==
    ASSUME NEW c \in CellType, NEW b \in BOOLEAN
    PROVE  LET d == [c EXCEPT !.clean = b]
           IN  /\ d \in CellType /\ d.clean = b
               /\ d.verdict = c.verdict /\ d.wrote = c.wrote /\ d.faulty = c.faulty
BY DEF CellType

LEMMA MarkSet ==
    ASSUME NEW d \in DiskType, NEW m \in Modes, NEW says \in Marks
    PROVE  LET e == [d EXCEPT !.mark[m] = says]
           IN  /\ e \in DiskType /\ e.root = d.root /\ e.dump = d.dump
               /\ e.mark[m] = says
               /\ \A k \in Modes : k # m => e.mark[k] = d.mark[k]
<1> DEFINE mark == [d.mark EXCEPT ![m] = says]
<1>1. d.mark \in [Modes -> Marks]
  BY DEF DiskType
<1>2. /\ mark \in [Modes -> Marks] /\ mark[m] = says
      /\ \A k \in Modes : k # m => mark[k] = d.mark[k]
  BY <1>1
<1>3. [d EXCEPT !.mark[m] = says] = [d EXCEPT !.mark = mark]
  OBVIOUS
<1> HIDE DEF mark
<1>4. [d EXCEPT !.mark = mark] = [root |-> d.root, dump |-> d.dump, mark |-> mark]
  BY DEF DiskType
<1> QED BY <1>2, <1>3, <1>4 DEF DiskType

LEMMA MarkWritten ==
    ASSUME disk \in [Ids -> DiskType], NEW id \in Ids, NEW m \in Modes, NEW says \in Marks,
           disk' = [disk EXCEPT ![id].mark[m] = says]
    PROVE  /\ disk' \in [Ids -> DiskType] /\ disk'[id].mark[m] = says
           /\ \A i \in Ids, k \in Modes :
                  i # id \/ k # m => disk'[i].mark[k] = disk[i].mark[k]
           /\ \A i \in Ids : disk'[i].root = disk[i].root /\ disk'[i].dump = disk[i].dump
<1> DEFINE e == [disk[id] EXCEPT !.mark[m] = says]
<1>1. disk' = [disk EXCEPT ![id] = e]
  OBVIOUS
<1>2. /\ e \in DiskType /\ e.root = disk[id].root /\ e.dump = disk[id].dump
      /\ e.mark[m] = says
      /\ \A k \in Modes : k # m => e.mark[k] = disk[id].mark[k]
  BY MarkSet
<1> HIDE DEF e
<1>3. disk'[id] = e /\ \A i \in Ids : i # id => disk'[i] = disk[i]
  BY <1>1
<1>4. disk' \in [Ids -> DiskType]
  BY <1>1, <1>2
<1> QED BY <1>2, <1>3, <1>4

LEMMA InfraField ==
    ASSUME NEW c \in CellType
    PROVE  LET d == [c EXCEPT !.verdict = "InfraFailure"]
           IN  /\ d \in CellType /\ d.verdict = "InfraFailure" /\ d.wrote = c.wrote
               /\ d.faulty = c.faulty
BY DEF CellType, Verdicts

LEMMA FreshFields ==
    /\ FreshCell \in CellType
    /\ FreshCell.verdict = "none" /\ FreshCell.wrote = "none" /\ ~FreshCell.faulty
    /\ ~FreshCell.timely
BY DEF FreshCell, CellType, Marks

LEMMA Tallied ==
    ASSUME TypeOK, NEW ok \in Tries, Tally(ok)
    PROVE  ok \in BOOLEAN /\ faults' \in 0..MaxFaults
<1>1. faults \in 0..MaxFaults /\ MaxFaults \in Nat
  BY EvalAssumption DEF TypeOK
<1>2. CASE ok
  BY <1>1, <1>2 DEF Tries, Tally
<1>3. CASE ~ok
  <2>1. faults < MaxFaults /\ ok \in BOOLEAN
    BY <1>3 DEF Tries
  <2> QED BY <1>1, <1>3, <2>1 DEF Tally
<1> QED BY <1>2, <1>3

-----------------------------------------------------------------------------
(* Parts of the invariant that steps of a kind preserve for the same reason. *)

\* An instance without a verdict and without a verifier.
LEMMA Undecided ==
    ASSUME pass'.pc \in {"home", "wipe", "seed", "preclean", "boot", "agent"},
           cell'.verdict = "none", cell'.wrote = "none"
    PROVE  CellInv' /\ GroundInv' /\ WrittenInv'
BY DEF CellInv, GroundInv, WrittenInv, Early, Over, Underway

\* One that failed before a verifier was started.
LEMMA FailedEarly ==
    ASSUME pass'.pc \in {"remove", "row"},
           cell'.verdict = "InfraFailure", cell'.wrote = "none"
    PROVE  CellInv' /\ GroundInv' /\ WrittenInv'
BY DEF CellInv, GroundInv, WrittenInv, Early, Over, Underway, Capability

LEMMA PlaceKept ==
    ASSUME PlaceInv, Underway' => Underway, InBox' = InBox,
           pass'.at = pass.at, pass'.n = pass.n,
           pass'.pc \in {"boot", "preclean", "remove"} => InBox
    PROVE  PlaceInv'
BY DEF PlaceInv

LEMMA BoxKept ==
    ASSUME BoxInv, box' = box,
           pass'.n = pass.n, pass'.at = pass.at, InBox' = InBox, Id' = Id,
           Underway' => Underway, Early' => Early, Living' /\ InBox => Living,
           pass'.pc = "row" /\ box[Id].run = pass.n /\ box[Id].alive => cell'.leaks
    PROVE  BoxInv'
BY DEF BoxInv

\* Containers that vanish; whoever reaches the row has none of its own left.
LEMMA EmptyBoxes ==
    ASSUME TypeOK, PlaceInv, BoxInv, Underway, \A id \in Ids : box'[id] = box[id] \/ box'[id] = NoBox,
           pass'.n = pass.n, pass'.at = pass.at, InBox' = InBox, Id' = Id,
           Underway', Early' => Early, ~Living',
           pass'.pc = "row" /\ box'[Id].run = pass.n /\ box'[Id].alive => cell'.leaks
    PROVE  BoxInv'
<1>1. pass.n \in Nat /\ NoBox.run = 0
  BY EvalAssumption DEF TypeOK, PassType, Runs, NoBox
<1>2. \A j \in DOMAIN Slice : Slice[j] \in Ids
  BY DEF Ids
<1>3. \A id \in Ids : box'[id].run <= pass.n
  BY <1>1 DEF BoxInv
<1>4. Underway => pass.n # 0
  BY DEF PlaceInv
<1> QED BY <1>1, <1>2, <1>3, <1>4 DEF BoxInv

LEMMA StrayKept ==
    ASSUME StrayInv, strays' \subseteq strays,
           pass'.n = pass.n, pass'.at = pass.at, Underway' => Underway, Over => Over'
    PROVE  StrayInv'
BY DEF StrayInv

\* A pass that is not running, or has only its report to write.
LEMMA Closing ==
    ASSUME EvalInv, pass'.pc \in {"off", "report", "done"}, pass'.n = pass.n, box' = box,
           cell' = cell \/ cell' = FreshCell, \A s \in strays' : s.run <= pass.n
    PROVE  /\ PlaceInv' /\ CellInv' /\ GroundInv' /\ WrittenInv'
           /\ BoxInv' /\ StrayInv' /\ CleanInv'
BY FreshFields DEF EvalInv, PlaceInv, CellInv, GroundInv, WrittenInv, BoxInv, StrayInv, CleanInv,
                   Underway, Early, Living, Over

-----------------------------------------------------------------------------
(* Before the agent *)

LEMMA BeginStep == ASSUME EvalInv, Begin PROVE EvalInv'
<1> USE DEF EvalInv
<1>1. PICK m \in Modes :
          pass' = [n |-> pass.n + 1, mode |-> m, at |-> 1, rows |-> <<>>, code |-> 0,
                   pc |-> IF Slice = <<>> THEN "report" ELSE "home"]
  BY DEF Begin
<1>2. /\ cell' = FreshCell /\ disk' = disk /\ box' = box /\ strays' = strays
      /\ report' = report /\ faults' = faults
  BY DEF Begin
<1>3. pass.n \in Nat /\ pass.n + 1 \in Runs
  BY EvalAssumption DEF Begin, TypeOK, PassType, Runs
<1>4. pass' \in PassType /\ pass'.n = pass.n + 1 /\ pass'.at = 1 /\ pass'.mode \in Modes
  <2>1. (IF Slice = <<>> THEN "report" ELSE "home") \in PCs
    BY DEF PCs
  <2>2. <<>> \in Seq(Row)
    OBVIOUS
  <2> QED BY <1>1, <1>3, <2>1, <2>2 DEF PassType
<1>5. pass'.pc = "report" \/ (pass'.pc = "home" /\ 1 \in DOMAIN Slice)
  <2>1. Slice # <<>> => 1 \in DOMAIN Slice
    BY EvalAssumption, EmptySeq, LenProperties
  <2>2. pass'.pc = IF Slice = <<>> THEN "report" ELSE "home"
    BY <1>1
  <2> QED BY <2>1, <2>2
<1>6. TypeOK'
  BY <1>2, <1>4, <1>5, FreshFields DEF TypeOK
<1>7. PlaceInv'
  <2>1. pass.n + 1 # 0
    BY <1>3
  <2> QED BY <1>4, <1>5, <2>1 DEF PlaceInv, Underway
<1>8. CellInv' /\ GroundInv' /\ WrittenInv' /\ CleanInv'
  BY <1>2, <1>5, FreshFields
  DEF CellInv, GroundInv, WrittenInv, CleanInv, Early, Over, Underway, Living
<1>9. \A id \in Ids : box[id].run \in Nat /\ box[id].run <= pass.n
  BY EvalAssumption DEF TypeOK, Runs, BoxInv
<1>10. BoxInv'
  <2>1. \A id \in Ids : box[id].run <= pass.n + 1 /\ box[id].run # pass.n + 1
    BY <1>3, <1>9
  <2>2. \A j \in DOMAIN Slice : Slice[j] \in Ids
    BY DEF Ids
  <2> QED BY <1>2, <1>4, <1>5, <2>1, <2>2 DEF BoxInv, Living
<1>11. StrayInv'
  <2>1. \A s \in strays : s.run \in Nat /\ s.run <= pass.n
    BY EvalAssumption DEF TypeOK, Runs, StrayInv
  <2>2. \A s \in strays : s.run <= pass.n + 1 /\ s.run # pass.n + 1
    BY <1>3, <2>1
  <2> QED BY <1>2, <1>4, <2>2 DEF StrayInv
<1> QED BY <1>6, <1>7, <1>8, <1>10, <1>11

LEMMA OpenHomeStep == ASSUME EvalInv, OpenHome PROVE EvalInv'
<1> USE DEF EvalInv
<1>1. pass.pc = "home" /\ Underway /\ Early /\ ~Living /\ ~Over
  BY DEF OpenHome, Underway, Early, Living, Over
<1>2. PICK ok \in Tries :
          /\ Tally(ok)
          /\ IF ~ok THEN Quit(2)
             ELSE Goto(CASE pass.mode = "plain" -> "grade"
                         [] InBox /\ Id \in HasImage -> "wipe"
                         [] OTHER -> "seed")
  BY DEF OpenHome
<1>3. ok \in BOOLEAN /\ faults' \in 0..MaxFaults
  BY <1>2, Tallied
<1>4. disk' = disk /\ box' = box /\ strays' = strays /\ cell' = cell /\ report' = report
  BY DEF OpenHome
<1>5. CASE ~ok
  <2>1. pass' \in PassType /\ pass'.pc = "done" /\ pass'.n = pass.n
    <3>1. Quit(2) /\ 2 \in {0, 2}
      BY <1>2, <1>5
    <3> QED BY <3>1, QuitFields
  <2>2. TypeOK'
    BY <1>3, <1>4, <2>1 DEF TypeOK
  <2>3. \A s \in strays' : s.run <= pass.n
    BY <1>4 DEF StrayInv
  <2> QED BY <1>4, <2>1, <2>2, <2>3, Closing
<1>6. CASE ok
  <2>1. PICK pc \in {"grade", "wipe", "seed"} :
            /\ Goto(pc)
            /\ pc = "grade" => pass.mode = "plain"
            /\ pc = "seed" => ~(InBox /\ Id \in HasImage)
    BY <1>2, <1>6
  <2>2. /\ pass' \in PassType /\ pass'.pc = pc /\ pass'.n = pass.n /\ pass'.at = pass.at
        /\ pass'.mode = pass.mode /\ Id' = Id /\ InBox' = InBox
    BY <2>1, GotoFields DEF PCs
  <2>3. Underway' /\ ~Over' /\ (pc = "grade" => ~InBox)
    BY <2>1, <2>2 DEF Underway, Over, InBox
  <2>4. TypeOK'
    BY <1>3, <1>4, <2>2 DEF TypeOK
  <2>5. CellInv' /\ GroundInv' /\ WrittenInv'
    BY <1>1, <1>4, <2>1, <2>2, <2>3 DEF CellInv, GroundInv, WrittenInv, Early, Over
  <2>6. PlaceInv' /\ StrayInv'
    BY <1>1, <1>4, <2>2, <2>3, PlaceKept, StrayKept
  <2>7. BoxInv'
    BY <1>1, <1>4, <2>1, <2>2, <2>3 DEF BoxInv, Living, Early
  <2>8. CleanInv'
    BY <1>1, <1>4, <2>1, <2>2, <2>3 DEF CleanInv, Living
  <2> QED BY <2>4, <2>5, <2>6, <2>7, <2>8
<1> QED BY <1>3, <1>5, <1>6

LEMMA WipeStep == ASSUME EvalInv, Wipe PROVE EvalInv'
<1> USE DEF EvalInv
<1>1. pass.pc = "wipe" /\ Underway /\ Early /\ ~Living /\ ~Over
  BY DEF Wipe, Underway, Early, Living, Over
<1>2. /\ pass' \in PassType /\ pass'.pc = "seed" /\ pass'.n = pass.n /\ pass'.at = pass.at
      /\ pass'.mode = pass.mode /\ Id' = Id /\ InBox' = InBox
  BY GotoFields DEF Wipe, PCs
<1>3. PICK ok \in Tries : /\ Tally(ok) /\ cell' = Noting(ok, cell)
                          /\ disk' = [disk EXCEPT ![Id].root = @ /\ ~ok]
  BY DEF Wipe
<1>4. ok \in BOOLEAN /\ faults' \in 0..MaxFaults
  BY <1>3, Tallied
<1>5. /\ cell' \in CellType /\ cell'.verdict = cell.verdict /\ cell'.wrote = cell.wrote
      /\ ~cell'.faulty => ok
  BY <1>3, <1>4, NotingFields DEF TypeOK
<1>6. Id \in Ids
  BY <1>1, CurrentId
<1>7. disk' \in [Ids -> DiskType] /\ (ok => ~disk'[Id].root)
  BY <1>3, <1>4, <1>6 DEF TypeOK, DiskType
<1>8. box' = box /\ strays' = strays /\ report' = report
  BY DEF Wipe
<1>9. Underway' /\ Early' /\ ~Living' /\ ~Over'
  BY <1>2 DEF Underway, Early, Living, Over
<1>10. TypeOK'
  BY <1>2, <1>4, <1>5, <1>7, <1>8 DEF TypeOK
<1>11. CellInv' /\ GroundInv' /\ WrittenInv'
  BY <1>1, <1>2, <1>5, Undecided DEF CellInv
<1>12. PlaceInv' /\ BoxInv' /\ StrayInv'
  BY <1>1, <1>2, <1>8, <1>9, PlaceKept, BoxKept, StrayKept
<1>13. CleanInv'
  BY <1>2, <1>5, <1>7, <1>9 DEF CleanInv
<1> QED BY <1>10, <1>11, <1>12, <1>13

LEMMA SeedStep == ASSUME EvalInv, Seed PROVE EvalInv'
<1> USE DEF EvalInv
<1>1. pass.pc = "seed" /\ Underway /\ Early /\ ~Living /\ ~Over
  BY DEF Seed, Underway, Early, Living, Over
<1> DEFINE imageless == InBox /\ Id \notin HasImage
<1>2. PICK ok \in Tries, dirty \in BOOLEAN :
          LET refused == ~ok \/ dirty
              c == [Noting(ok, cell) EXCEPT !.clean = ~disk[Id].root]
          IN  /\ dirty => disk[Id].root
              /\ Tally(ok)
              /\ cell' = IF refused \/ imageless THEN Failing(c) ELSE c
              /\ Goto(IF refused \/ imageless THEN "row"
                      ELSE IF InBox THEN "preclean" ELSE "agent")
  BY DEF Seed
<1> DEFINE fails == ~ok \/ dirty \/ imageless
           c == [Noting(ok, cell) EXCEPT !.clean = ~disk[Id].root]
<1>3. ok \in BOOLEAN /\ faults' \in 0..MaxFaults
  BY <1>2, Tallied
<1>4. disk' = disk /\ box' = box /\ strays' = strays /\ report' = report
  BY DEF Seed
<1>5. Id \in Ids /\ disk[Id].root \in BOOLEAN
  BY <1>1, CurrentId DEF TypeOK, DiskType
<1>6. /\ c \in CellType /\ c.verdict = cell.verdict /\ c.wrote = cell.wrote
      /\ c.clean = ~disk[Id].root /\ (~c.faulty => ~cell.faulty /\ ok)
  <2>1. cell \in CellType
    BY DEF TypeOK
  <2>2. (~disk[Id].root) \in BOOLEAN
    OBVIOUS
  <2>3. /\ Noting(ok, cell) \in CellType /\ Noting(ok, cell).verdict = cell.verdict
        /\ Noting(ok, cell).wrote = cell.wrote
        /\ ~Noting(ok, cell).faulty => ~cell.faulty /\ ok
    BY <1>3, <2>1, NotingFields
  <2> QED BY <2>2, <2>3, CleanField
<1>7. cell' = IF fails THEN Failing(c) ELSE c
  BY <1>2
<1>8. PICK pc \in {"row", "preclean", "agent"} :
          /\ Goto(pc) /\ (pc = "row" <=> fails) /\ (pc = "preclean" => InBox)
          /\ pc = "agent" => ~InBox
  <2>1. CASE fails
    BY <1>2, <2>1
  <2>2. CASE ~fails /\ InBox
    BY <1>2, <2>2
  <2>3. CASE ~fails /\ ~InBox
    BY <1>2, <2>3
  <2> QED BY <2>1, <2>2, <2>3
<1>9. /\ pass' \in PassType /\ pass'.pc = pc /\ pass'.n = pass.n /\ pass'.at = pass.at
      /\ pass'.mode = pass.mode /\ Id' = Id /\ InBox' = InBox
  BY <1>8, GotoFields DEF PCs
<1> HIDE DEF c
<1>10. /\ cell' \in CellType /\ cell'.wrote = cell.wrote /\ cell'.clean = ~disk[Id].root
       /\ ~cell'.faulty => ~cell.faulty /\ ok
       /\ IF fails THEN cell'.verdict = "InfraFailure" ELSE cell'.verdict = cell.verdict
  BY <1>6, <1>7, FailingFields
<1>11. TypeOK'
  BY <1>1, <1>3, <1>4, <1>8, <1>9, <1>10 DEF TypeOK, CellInv
<1>12. CellInv' /\ GroundInv' /\ WrittenInv'
  BY <1>1, <1>8, <1>9, <1>10, Undecided, FailedEarly DEF CellInv
<1>13. Underway' /\ (Living' => ~InBox)
  BY <1>8, <1>9 DEF Underway, Living
<1>14. PlaceInv' /\ StrayInv'
  BY <1>1, <1>4, <1>8, <1>9, <1>13, PlaceKept, StrayKept
<1>15. box[Id].run # pass.n
  BY <1>1 DEF BoxInv, PlaceInv, Id
<1>16. BoxInv'
  BY <1>1, <1>4, <1>8, <1>9, <1>13, <1>15 DEF BoxInv
<1>17. CleanInv'
  <2>1. ASSUME InBox, Id \in HasImage, ~cell'.faulty
        PROVE  ~disk[Id].root /\ ~fails
    BY <1>1, <1>2, <1>10, <2>1 DEF CleanInv
  <2> QED BY <1>4, <1>8, <1>9, <1>10, <1>13, <2>1 DEF CleanInv, Over
<1> QED BY <1>11, <1>12, <1>14, <1>16, <1>17

\* docker rm -f of the current name.
LEMMA Removed ==
    ASSUME TypeOK, PlaceInv, BoxInv, Underway, NEW ok \in Tries, Remove(ok)
    PROVE  /\ ok \in BOOLEAN /\ faults' \in 0..MaxFaults
           /\ box' \in [Ids -> [run : Runs, alive : BOOLEAN]]
           /\ strays' \subseteq strays
           /\ IF ok THEN box'[Id] = NoBox ELSE box' = box
           /\ \A id \in Ids : box'[id] = box[id] \/ box'[id] = NoBox
<1>1. ok \in BOOLEAN /\ faults' \in 0..MaxFaults
  BY Tallied DEF Remove
<1>2. Id \in Ids
  BY CurrentId
<1>3. NoBox \in [run : Runs, alive : BOOLEAN]
  BY EvalAssumption DEF NoBox, Runs
<1>4. box' = (IF ok THEN [box EXCEPT ![Id] = NoBox] ELSE box)
  BY DEF Remove
<1>5. strays' \subseteq strays
  BY DEF Remove, Without
<1> QED BY <1>1, <1>2, <1>3, <1>4, <1>5 DEF TypeOK

LEMMA PrecleanStep == ASSUME EvalInv, Preclean PROVE EvalInv'
<1> USE DEF EvalInv
<1>1. pass.pc = "preclean" /\ Underway /\ Early /\ ~Living /\ ~Over /\ InBox
  BY DEF Preclean, Underway, Early, Living, Over, PlaceInv
<1>2. /\ pass' \in PassType /\ pass'.pc = "boot" /\ pass'.n = pass.n /\ pass'.at = pass.at
      /\ pass'.mode = pass.mode /\ Id' = Id /\ InBox' = InBox
  BY GotoFields DEF Preclean, PCs
<1>3. PICK ok \in Tries : Remove(ok) /\ cell' = Noting(ok, cell)
  BY DEF Preclean
<1>4. /\ ok \in BOOLEAN /\ faults' \in 0..MaxFaults
      /\ box' \in [Ids -> [run : Runs, alive : BOOLEAN]]
      /\ strays' \subseteq strays
      /\ IF ok THEN box'[Id] = NoBox ELSE box' = box
      /\ \A id \in Ids : box'[id] = box[id] \/ box'[id] = NoBox
  BY <1>1, <1>3, Removed
<1>5. /\ cell' \in CellType /\ cell'.verdict = cell.verdict /\ cell'.wrote = cell.wrote
      /\ cell'.clean = cell.clean /\ (~cell'.faulty => ~cell.faulty /\ ok)
  <2>1. cell \in CellType
    BY DEF TypeOK
  <2> QED BY <1>3, <1>4, <2>1, NotingFields
<1>6. disk' = disk /\ report' = report
  BY DEF Preclean
<1>7. Underway' /\ Early' /\ ~Living' /\ ~Over'
  BY <1>2 DEF Underway, Early, Living, Over
<1>8. TypeOK'
  BY <1>2, <1>4, <1>5, <1>6 DEF TypeOK
<1>9. CellInv' /\ GroundInv' /\ WrittenInv'
  BY <1>1, <1>2, <1>5, Undecided DEF CellInv
<1>10. PlaceInv' /\ StrayInv'
  BY <1>1, <1>2, <1>4, <1>7, PlaceKept, StrayKept
<1>11. BoxInv'
  BY <1>1, <1>2, <1>4, <1>7, EmptyBoxes
<1>12. CleanInv'
  BY <1>1, <1>2, <1>4, <1>5, <1>7 DEF CleanInv
<1> QED BY <1>8, <1>9, <1>10, <1>11, <1>12

LEMMA BootStep == ASSUME EvalInv, Boot PROVE EvalInv'
<1> USE DEF EvalInv
<1>1. pass.pc = "boot" /\ Underway /\ Early /\ ~Living /\ ~Over /\ InBox
  BY DEF Boot, Underway, Early, Living, Over, PlaceInv
<1>2. PICK ok \in Tries, kept \in BOOLEAN :
          LET up == ok /\ box[Id] = NoBox
              c == Noting(ok, cell)
          IN  /\ kept => ~ok /\ box[Id] = NoBox
              /\ Tally(ok)
              /\ box' = IF up \/ kept THEN [box EXCEPT ![Id] = [run |-> pass.n, alive |-> up]]
                        ELSE box
              /\ cell' = IF up THEN c ELSE Failing(c)
              /\ Goto(IF up THEN "agent" ELSE "row")
  BY DEF Boot
<1> DEFINE up == ok /\ box[Id] = NoBox
<1>3. ok \in BOOLEAN /\ faults' \in 0..MaxFaults /\ up \in BOOLEAN
  BY <1>2, Tallied
<1>4. disk' = disk /\ strays' = strays /\ report' = report
  BY DEF Boot
<1>5. Id \in Ids /\ pass.at \in DOMAIN Slice /\ pass.n \in Runs
  BY <1>1, CurrentId DEF PlaceInv, TypeOK, PassType
<1>6. /\ cell' \in CellType /\ cell'.wrote = cell.wrote /\ cell'.clean = cell.clean
      /\ ~cell'.faulty => ~cell.faulty /\ ok
      /\ IF up THEN cell'.verdict = cell.verdict ELSE cell'.verdict = "InfraFailure"
  <2>1. cell \in CellType
    BY DEF TypeOK
  <2> QED BY <1>2, <1>3, <2>1, NotingFields, FailingFields
<1>7. /\ pass' \in PassType /\ pass'.pc = (IF up THEN "agent" ELSE "row") /\ pass'.n = pass.n
      /\ pass'.at = pass.at /\ pass'.mode = pass.mode /\ Id' = Id /\ InBox' = InBox
  <2>1. CASE up
    <3>1. Goto("agent")
      BY <1>2, <2>1
    <3> QED BY <2>1, <3>1, GotoFields DEF PCs
  <2>2. CASE ~up
    <3>1. Goto("row")
      BY <1>2, <2>2
    <3> QED BY <2>2, <3>1, GotoFields DEF PCs
  <2> QED BY <2>1, <2>2
<1>8. /\ box' \in [Ids -> [run : Runs, alive : BOOLEAN]]
      /\ \A id \in Ids : id # Id => box'[id] = box[id]
      /\ up => box'[Id] = [run |-> pass.n, alive |-> TRUE]
      /\ ~up => box'[Id] = box[Id] \/ box'[Id] = [run |-> pass.n, alive |-> FALSE]
  <2>1. box \in [Ids -> [run : Runs, alive : BOOLEAN]]
    BY DEF TypeOK
  <2>2. [run |-> pass.n, alive |-> up] \in [run : Runs, alive : BOOLEAN]
    BY <1>3, <1>5
  <2>3. box' = box \/ box' = [box EXCEPT ![Id] = [run |-> pass.n, alive |-> up]]
    BY <1>2
  <2>4. up => box' = [box EXCEPT ![Id] = [run |-> pass.n, alive |-> up]]
    BY <1>2
  <2>5. box' \in [Ids -> [run : Runs, alive : BOOLEAN]]
    <3> HIDE DEF up
    <3> QED BY <1>5, <2>1, <2>2, <2>3
  <2>6. \A id \in Ids : id # Id => box'[id] = box[id]
    <3> HIDE DEF up
    <3> QED BY <1>5, <2>1, <2>3
  <2>7. box'[Id] = box[Id] \/ box'[Id] = [run |-> pass.n, alive |-> up]
    <3> HIDE DEF up
    <3> QED BY <1>5, <2>1, <2>3
  <2>8. up => box'[Id] = [run |-> pass.n, alive |-> up]
    <3> HIDE DEF up
    <3> QED BY <1>5, <2>1, <2>4
  <2>9. up => up = TRUE
    BY <1>3
  <2>10. ~up => up = FALSE
    BY <1>3
  <2> HIDE DEF up
  <2> QED BY <2>5, <2>6, <2>7, <2>8, <2>9, <2>10
<1>9. Underway' /\ ~Early'
  BY <1>7 DEF Underway, Early
<1>10. TypeOK'
  BY <1>3, <1>4, <1>6, <1>7, <1>8 DEF TypeOK
<1>11. CellInv' /\ GroundInv' /\ WrittenInv'
  BY <1>1, <1>6, <1>7, Undecided, FailedEarly DEF CellInv
<1>12. PlaceInv' /\ StrayInv'
  BY <1>1, <1>4, <1>7, PlaceKept, StrayKept
<1>13. BoxInv'
  <2>1. \A id \in Ids : box'[id].run <= pass.n
    <3>1. pass.n \in Nat /\ \A id \in Ids : box[id].run <= pass.n
      BY <1>5, EvalAssumption DEF BoxInv, Runs
    <3> QED BY <1>8, <3>1
  <2>2. \A j \in DOMAIN Slice : j > pass.at => box'[Slice[j]].run # pass.n
    <3> SUFFICES ASSUME NEW j \in DOMAIN Slice, j > pass.at
                 PROVE  box'[Slice[j]].run # pass.n
      OBVIOUS
    <3>1. Slice[j] \in Ids /\ box[Slice[j]].run # pass.n
      BY <1>1 DEF BoxInv, Ids
    <3>2. Slice[j] # Id
      BY <1>5, Later
    <3> QED BY <1>8, <3>1, <3>2
  <2>3. up => box'[Id].run = pass.n
    BY <1>8
  <2>4. ~up => ~(box'[Id].run = pass.n /\ box'[Id].alive)
    <3>1. box[Id].run # pass.n
      BY <1>1, <1>5 DEF BoxInv, Id
    <3> QED BY <1>8, <3>1
  <2> QED BY <1>1, <1>7, <1>9, <2>1, <2>2, <2>3, <2>4 DEF BoxInv, Living
<1>14. CleanInv'
  BY <1>1, <1>6, <1>7, <1>8, <1>9 DEF CleanInv, Over
<1> QED BY <1>10, <1>11, <1>12, <1>13, <1>14

-----------------------------------------------------------------------------
(* The agent's run *)

LEMMA AgentWorksStep == ASSUME EvalInv, AgentWorks PROVE EvalInv'
<1> USE DEF EvalInv
<1>1. pass.pc = "agent" /\ Underway /\ ~Over /\ InBox /\ box[Id].alive
  BY DEF AgentWorks, Underway, Over
<1>2. PICK says \in Says \cup {Mark} :
          disk' = [disk EXCEPT ![Id].root = TRUE, ![Id].mark["container"] = says]
  BY DEF AgentWorks
<1>3. /\ pass' = pass /\ box' = box /\ strays' = strays /\ report' = report
      /\ faults' = faults /\ cell' = [cell EXCEPT !.worked = TRUE]
  BY DEF AgentWorks
<1>4. Id \in Ids /\ pass.mode \in Modes
  BY <1>1, CurrentId DEF TypeOK, PassType
<1>5. disk' \in [Ids -> DiskType]
  <2>1. disk \in [Ids -> DiskType]
    BY DEF TypeOK
  <2>2. says \in Marks
    BY <1>4, <2>1 DEF Mark, Marks, DiskType
  <2> DEFINE d == [disk[Id] EXCEPT !.root = TRUE]
  <2>3. disk' = [disk EXCEPT ![Id] = [d EXCEPT !.mark["container"] = says]]
    BY <1>2, <1>4, <2>1
  <2>4. d \in DiskType /\ "container" \in Modes
    BY <1>4, <2>1 DEF DiskType, Modes
  <2>5. [d EXCEPT !.mark["container"] = says] \in DiskType
    <3> HIDE DEF d
    <3> QED BY <2>2, <2>4, MarkSet
  <2> QED BY <2>1, <2>3, <2>5
<1>6. /\ cell' \in CellType /\ cell'.verdict = cell.verdict /\ cell'.wrote = cell.wrote
      /\ cell'.clean = cell.clean /\ cell'.faulty = cell.faulty
  BY <1>3 DEF TypeOK, CellType
<1>7. Id' = Id /\ InBox' = InBox /\ (Underway' <=> Underway) /\ (Over' <=> Over)
      /\ (Early' <=> Early) /\ (Living' <=> Living)
  BY <1>3 DEF Id, InBox, Underway, Over, Early, Living
<1>8. TypeOK'
  BY <1>3, <1>5, <1>6 DEF TypeOK
<1>9. CellInv' /\ GroundInv' /\ WrittenInv'
  BY <1>1, <1>3, <1>6, Undecided DEF CellInv
<1>10. PlaceInv' /\ BoxInv' /\ StrayInv'
  BY <1>1, <1>3, <1>7, PlaceKept, BoxKept, StrayKept
<1>11. CleanInv'
  BY <1>1, <1>3, <1>6, <1>7 DEF CleanInv
<1> QED BY <1>8, <1>9, <1>10, <1>11

LEMMA AgentEndsStep == ASSUME EvalInv, AgentEnds PROVE EvalInv'
<1> USE DEF EvalInv
<1>1. pass.pc = "agent" /\ Underway /\ ~Over /\ Living /\ ~Early
  BY DEF AgentEnds, Underway, Over, Living, Early
<1>2. PICK ok \in BOOLEAN, told \in BOOLEAN :
          /\ ok \in Tries /\ (ok => told)
          /\ Tally(ok)
          /\ disk' = [disk EXCEPT ![Id].dump =
                         IF ok THEN [run |-> pass.n, ended |-> TRUE]
                         ELSE [run |-> IF told THEN 0 ELSE pass.n, ended |-> FALSE]]
          /\ cell' = CASE ok -> [cell EXCEPT !.ended = TRUE]
                       [] ~ok /\ told -> Failing(Noting(ok, cell))
                       [] OTHER -> Noting(ok, cell)
          /\ Goto(IF ~told \/ ok THEN "grade" ELSE Settled("row"))
  BY DEF AgentEnds
<1>3. faults' \in 0..MaxFaults
  BY <1>2, Tallied
<1>4. box' = box /\ strays' = strays /\ report' = report
  BY DEF AgentEnds
<1>5. Id \in Ids /\ pass.n \in Runs /\ 0 \in Runs
  BY <1>1, CurrentId, EvalAssumption DEF TypeOK, PassType, Runs
<1>6. disk' \in [Ids -> DiskType] /\ disk'[Id].dump.ended = ok
  <2> DEFINE dump == IF ok THEN [run |-> pass.n, ended |-> TRUE]
                     ELSE [run |-> IF told THEN 0 ELSE pass.n, ended |-> FALSE]
  <2>1. disk \in [Ids -> DiskType]
    BY DEF TypeOK
  <2>2. dump \in [run : Runs, ended : BOOLEAN] /\ dump.ended = ok
    BY <1>5
  <2>3. disk' = [disk EXCEPT ![Id].dump = dump]
    BY <1>2
  <2> HIDE DEF dump
  <2>4. disk' \in [Ids -> DiskType]
    BY <1>5, <2>1, <2>2, <2>3 DEF DiskType
  <2>5. disk'[Id].dump = dump
    BY <1>5, <2>1, <2>3 DEF DiskType
  <2> QED BY <2>2, <2>4, <2>5
<1>7. /\ cell' \in CellType /\ cell'.wrote = cell.wrote /\ cell'.clean = cell.clean
      /\ ~cell'.faulty => ~cell.faulty /\ ok
      /\ ok => cell'.ended
      /\ IF ok \/ ~told THEN cell'.verdict = cell.verdict ELSE cell'.verdict = "InfraFailure"
  <2>1. cell \in CellType
    BY DEF TypeOK
  <2>2. CASE ok
    <3>1. cell' = [cell EXCEPT !.ended = TRUE]
      BY <1>2, <2>2
    <3> QED BY <2>1, <2>2, <3>1 DEF CellType
  <2>3. CASE ~ok /\ told
    <3>1. cell' = Failing(Noting(ok, cell))
      BY <1>2, <2>3
    <3> QED BY <1>2, <2>1, <2>3, <3>1, NotingFields, FailingFields
  <2>4. CASE ~ok /\ ~told
    <3>1. cell' = Noting(ok, cell)
      BY <1>2, <2>4
    <3> QED BY <1>2, <2>1, <2>4, <3>1, NotingFields
  <2> QED BY <1>2, <2>2, <2>3, <2>4
<1>8. PICK pc \in {"grade", "remove", "row"} :
          /\ Goto(pc) /\ (pc = "grade" <=> ok \/ ~told) /\ (pc = "remove" => InBox)
          /\ pc = "row" => ~InBox
  <2>1. CASE ~told \/ ok
    <3>1. Goto("grade")
      BY <1>2, <2>1
    <3> QED BY <2>1, <3>1
  <2>2. CASE ~(~told \/ ok) /\ InBox
    <3>1. Goto("remove")
      BY <1>2, <2>2 DEF Settled
    <3> QED BY <2>2, <3>1
  <2>3. CASE ~(~told \/ ok) /\ ~InBox
    <3>1. Goto("row")
      BY <1>2, <2>3 DEF Settled
    <3> QED BY <2>3, <3>1
  <2> QED BY <2>1, <2>2, <2>3
<1>9. /\ pass' \in PassType /\ pass'.pc = pc /\ pass'.n = pass.n /\ pass'.at = pass.at
      /\ pass'.mode = pass.mode /\ Id' = Id /\ InBox' = InBox
  BY <1>8, GotoFields DEF PCs
<1>10. Underway' /\ ~Early' /\ (Over' <=> pc # "grade")
  BY <1>9 DEF Underway, Early, Over
<1>11. TypeOK'
  BY <1>1, <1>3, <1>4, <1>6, <1>7, <1>8, <1>9 DEF TypeOK, CellInv
<1>12. cell'.wrote = "none" /\ cell.verdict = "none"
  BY <1>1, <1>7 DEF CellInv
<1>13. CellInv' /\ GroundInv' /\ WrittenInv'
  <2>1. CASE pc = "grade"
    BY <1>6, <1>7, <1>8, <1>9, <1>10, <1>12, <2>1 DEF CellInv, GroundInv, WrittenInv
  <2>2. CASE pc # "grade"
    BY <1>7, <1>8, <1>9, <1>12, <2>2, FailedEarly
  <2> QED BY <2>1, <2>2
<1>14. PlaceInv' /\ StrayInv'
  BY <1>1, <1>4, <1>8, <1>9, PlaceKept, StrayKept
<1>15. BoxInv'
  <2>1. pc = "row" => box[Id].run # pass.n
    BY <1>1, <1>8 DEF BoxInv, PlaceInv, Id
  <2> QED BY <1>1, <1>4, <1>9, <1>10, <2>1, BoxKept
<1>16. CleanInv'
  BY <1>1, <1>4, <1>6, <1>7, <1>8, <1>9, <1>10 DEF CleanInv
<1> QED BY <1>11, <1>13, <1>14, <1>15, <1>16

LEMMA BoxDiesStep == ASSUME EvalInv, BoxDies PROVE EvalInv'
<1> USE DEF EvalInv
<1>1. pass.pc \in {"agent", "grade", "verify"} /\ InBox /\ Underway /\ ~Over
  BY DEF BoxDies, Underway, Over
<1>2. /\ FALSE \in Tries /\ Tally(FALSE) /\ cell' = Noting(FALSE, cell)
      /\ pass' = pass /\ disk' = disk /\ strays' = strays /\ report' = report
      /\ box' = [box EXCEPT ![Id].alive = FALSE]
  BY DEF BoxDies
<1>3. faults' \in 0..MaxFaults
  BY <1>2, Tallied
<1>4. Id \in Ids
  BY <1>1, CurrentId
<1>5. /\ box' \in [Ids -> [run : Runs, alive : BOOLEAN]]
      /\ \A id \in Ids : box'[id].run = box[id].run /\ (box'[id].alive => box[id].alive)
  BY <1>2, <1>4 DEF TypeOK
<1>6. /\ cell' \in CellType /\ cell'.verdict = cell.verdict /\ cell'.wrote = cell.wrote
      /\ cell'.timely = cell.timely /\ cell'.ended = cell.ended /\ cell'.ran = cell.ran
      /\ cell'.faulty /\ cell'.leaks = cell.leaks
  <2>1. cell \in CellType
    BY DEF TypeOK
  <2> QED BY <1>2, <2>1, NotingFields
<1>7. Id' = Id /\ InBox' = InBox /\ Mark' = Mark /\ (Underway' <=> Underway)
      /\ (Over' <=> Over) /\ (Early' <=> Early) /\ (Living' <=> Living)
  BY <1>2 DEF Id, InBox, Mark, Underway, Over, Early, Living
<1>8. TypeOK'
  BY <1>1, <1>2, <1>3, <1>5, <1>6 DEF TypeOK
<1>9. CellInv' /\ GroundInv'
  BY <1>1, <1>2, <1>6, <1>7 DEF CellInv, GroundInv
<1>10. WrittenInv'
  BY <1>1, <1>2, <1>6, <1>7 DEF WrittenInv
<1>11. PlaceInv' /\ StrayInv'
  BY <1>1, <1>2, <1>7, PlaceKept, StrayKept DEF PlaceInv
<1>12. BoxInv'
  <2>1. \A j \in DOMAIN Slice : Slice[j] \in Ids
    BY DEF Ids
  <2> QED BY <1>1, <1>2, <1>4, <1>5, <1>7, <2>1 DEF BoxInv
<1>13. CleanInv'
  BY <1>6 DEF CleanInv
<1> QED BY <1>8, <1>9, <1>10, <1>11, <1>12, <1>13

-----------------------------------------------------------------------------
(* Grading *)

LEMMA GradeStep == ASSUME EvalInv, Grade PROVE EvalInv'
<1> USE DEF EvalInv
<1>1. pass.pc = "grade" /\ Underway /\ ~Over /\ ~Early /\ Living
  BY DEF Grade, Underway, Over, Early, Living
<1>2. PICK ok \in Tries :
          LET go == (pass.mode = "plain" \/ disk[Id].dump.ended) /\ ok
          IN  /\ Tally(ok)
              /\ cell' = IF go THEN [cell EXCEPT !.timely = TRUE]
                         ELSE [Noting(ok, cell) EXCEPT !.verdict = "InfraFailure"]
              /\ Goto(IF go THEN "verify" ELSE Settled("row"))
  BY DEF Grade
<1> DEFINE go == (pass.mode = "plain" \/ disk[Id].dump.ended) /\ ok
<1>3. ok \in BOOLEAN /\ faults' \in 0..MaxFaults
  BY <1>2, Tallied
<1>4. disk' = disk /\ box' = box /\ strays' = strays /\ report' = report
  BY DEF Grade
<1>5. cell \in CellType /\ cell.wrote = "none" /\ cell.verdict = "none"
  BY <1>1 DEF TypeOK, CellInv
<1>6. CASE go
  <2>1. /\ pass' \in PassType /\ pass'.pc = "verify" /\ pass'.n = pass.n /\ pass'.at = pass.at
        /\ pass'.mode = pass.mode /\ Id' = Id /\ InBox' = InBox
    <3>1. Goto("verify")
      BY <1>2, <1>6
    <3> QED BY <3>1, GotoFields DEF PCs
  <2>2. /\ cell' \in CellType /\ cell'.timely /\ cell'.verdict = cell.verdict
        /\ cell'.wrote = cell.wrote /\ cell'.ended = cell.ended /\ cell'.clean = cell.clean
        /\ cell'.faulty = cell.faulty
    <3>1. cell' = [cell EXCEPT !.timely = TRUE]
      BY <1>2, <1>6
    <3> QED BY <1>5, <3>1 DEF CellType
  <2>3. Underway' /\ ~Over' /\ ~Early' /\ Living'
    BY <2>1 DEF Underway, Over, Early, Living
  <2>4. TypeOK'
    BY <1>3, <1>4, <2>1, <2>2 DEF TypeOK
  <2>5. CellInv' /\ GroundInv' /\ WrittenInv'
    BY <1>1, <1>5, <1>6, <2>1, <2>2, <2>3 DEF CellInv, GroundInv, WrittenInv
  <2>6. PlaceInv' /\ BoxInv' /\ StrayInv'
    BY <1>1, <1>4, <2>1, <2>3, PlaceKept, BoxKept, StrayKept
  <2>7. CleanInv'
    BY <1>1, <1>4, <2>1, <2>2, <2>3 DEF CleanInv
  <2> QED BY <2>4, <2>5, <2>6, <2>7
<1>7. CASE ~go
  <2>1. PICK pc \in {"remove", "row"} :
            Goto(pc) /\ (pc = "remove" => InBox) /\ (pc = "row" => ~InBox)
    BY <1>2, <1>7 DEF Settled
  <2>2. /\ pass' \in PassType /\ pass'.pc = pc /\ pass'.n = pass.n /\ pass'.at = pass.at
        /\ pass'.mode = pass.mode /\ Id' = Id /\ InBox' = InBox
    BY <2>1, GotoFields DEF PCs
  <2>3. /\ cell' \in CellType /\ cell'.verdict = "InfraFailure" /\ cell'.wrote = cell.wrote
        /\ ~cell'.faulty => ~cell.faulty /\ ok
    <3>1. cell' = [Noting(ok, cell) EXCEPT !.verdict = "InfraFailure"]
      BY <1>2, <1>7
    <3>2. /\ Noting(ok, cell) \in CellType /\ Noting(ok, cell).wrote = cell.wrote
          /\ ~Noting(ok, cell).faulty => ~cell.faulty /\ ok
      BY <1>3, <1>5, NotingFields
    <3> QED BY <3>1, <3>2, InfraField
  <2>4. TypeOK'
    BY <1>3, <1>4, <2>2, <2>3 DEF TypeOK
  <2>5. CellInv' /\ GroundInv' /\ WrittenInv'
    BY <1>5, <2>2, <2>3, FailedEarly
  <2>6. Underway' /\ Over' /\ ~Early' /\ ~Living'
    BY <2>1, <2>2 DEF Underway, Over, Early, Living
  <2>7. PlaceInv' /\ StrayInv'
    BY <1>1, <1>4, <2>1, <2>2, <2>6, PlaceKept, StrayKept
  <2>8. BoxInv'
    <3>1. pc = "row" => box[Id].run # pass.n
      BY <1>1, <2>1 DEF BoxInv, PlaceInv, Id
    <3> QED BY <1>1, <1>4, <2>2, <2>6, <3>1, BoxKept
  <2>9. CleanInv'
    BY <1>1, <1>7, <2>2, <2>3, <2>6 DEF CleanInv, InBox
  <2> QED BY <2>4, <2>5, <2>7, <2>8, <2>9
<1> QED BY <1>6, <1>7

LEMMA VerifierWritesStep == ASSUME EvalInv, VerifierWrites PROVE EvalInv'
<1> USE DEF EvalInv
<1>1. pass.pc = "verify" /\ Underway /\ ~Over
  BY DEF VerifierWrites, Underway, Over
<1>2. PICK says \in Says :
          /\ disk' = [disk EXCEPT ![Id].mark[pass.mode] = says]
          /\ cell' = [cell EXCEPT !.ran = TRUE, !.wrote = says]
  BY DEF VerifierWrites
<1>3. pass' = pass /\ box' = box /\ strays' = strays /\ report' = report /\ faults' = faults
  BY DEF VerifierWrites
<1>4. Id \in Ids /\ pass.mode \in Modes /\ says \in Marks /\ says # "none"
  BY <1>1, CurrentId DEF TypeOK, PassType, Marks, Says
<1>5. disk' \in [Ids -> DiskType] /\ disk'[Id].mark[pass.mode] = says
  <2>1. disk \in [Ids -> DiskType]
    BY DEF TypeOK
  <2>2. disk' = [disk EXCEPT ![Id].mark[pass.mode] = says]
    BY <1>2
  <2> DEFINE id == Id
             mode == pass.mode
  <2>3. id \in Ids /\ mode \in Modes /\ disk' = [disk EXCEPT ![id].mark[mode] = says]
    BY <1>4, <2>2
  <2> HIDE DEF id, mode
  <2>4. /\ disk' \in [Ids -> DiskType] /\ disk'[id].mark[mode] = says
        /\ \A i \in Ids, k \in Modes :
               i # id \/ k # mode => disk'[i].mark[k] = disk[i].mark[k]
        /\ \A i \in Ids : disk'[i].root = disk[i].root /\ disk'[i].dump = disk[i].dump
    BY <1>4, <2>1, <2>3, MarkWritten
  <2> QED BY <2>4 DEF id, mode
<1>6. /\ cell' \in CellType /\ cell'.verdict = cell.verdict /\ cell'.wrote = says
      /\ cell'.ran /\ cell'.timely = cell.timely /\ cell'.ended = cell.ended
      /\ cell'.clean = cell.clean /\ cell'.faulty = cell.faulty
  <2>1. cell \in CellType
    BY DEF TypeOK
  <2> QED BY <1>2, <1>4, <2>1 DEF CellType
<1>7. Id' = Id /\ InBox' = InBox /\ (Underway' <=> Underway)
      /\ (Over' <=> Over) /\ (Early' <=> Early) /\ (Living' <=> Living)
  BY <1>3 DEF Id, InBox, Underway, Over, Early, Living
<1>8. Mark' = says
  BY <1>3, <1>5, <1>7 DEF Mark
<1>9. TypeOK'
  BY <1>1, <1>3, <1>5, <1>6 DEF TypeOK
<1>10. CellInv' /\ GroundInv' /\ WrittenInv'
  BY <1>1, <1>3, <1>6, <1>7, <1>8 DEF CellInv, GroundInv, WrittenInv, Early
<1>11. PlaceInv' /\ BoxInv' /\ StrayInv'
  BY <1>1, <1>3, <1>7, PlaceKept, BoxKept, StrayKept
<1>12. CleanInv'
  BY <1>1, <1>3, <1>6, <1>7 DEF CleanInv
<1> QED BY <1>9, <1>10, <1>11, <1>12

\* What a verdict of the grading says of the reward file and of docker's answer.
LEMMA VerdictMeaning ==
    ASSUME NEW exit \in {"zero", "nonzero", "error"}, Mark \in Marks, pass.mode \in Modes
    PROVE  /\ VerdictOf(exit) \in Verdicts
           /\ VerdictOf(exit) \in Capability => Mark # "none" \/ (InBox /\ exit # "error")
           /\ InBox /\ Mark # "none" => VerdictOf(exit) = FromMark(Mark)
           /\ InBox /\ exit # "error" => VerdictOf(exit) # "InfraFailure"
<1>1. InBox => pass.mode # "harbor"
  BY DEF InBox
<1>2. \A m \in Marks : /\ FromMark(m) \in Verdicts /\ FromMark(m) # "InfraFailure"
                       /\ FromMark(m) \in Capability => m # "none"
  BY DEF FromMark, Marks, Says, Verdicts, Capability
<1>3. /\ FromExit(exit) \in Verdicts
      /\ FromExit(exit) \in Capability \/ FromExit(exit) = "InfraFailure"
      /\ exit # "error" => FromExit(exit) # "InfraFailure"
      /\ exit = "error" => FromExit(exit) \notin Capability
  BY DEF FromExit, Verdicts, Capability
<1>4. CASE InBox /\ Mark = "none"
  <2>1. VerdictOf(exit) = FromExit(exit)
    BY <1>1, <1>4 DEF VerdictOf
  <2> QED BY <1>3, <1>4, <2>1
<1>5. CASE pass.mode = "harbor" /\ Mark = "none" /\ exit # "zero"
  <2>1. VerdictOf(exit) = "InfraFailure"
    BY <1>1, <1>5 DEF VerdictOf
  <2> QED BY <1>1, <1>5, <2>1 DEF Verdicts, Capability
<1>6. CASE ~(InBox /\ Mark = "none") /\ ~(pass.mode = "harbor" /\ Mark = "none" /\ exit # "zero")
  <2>1. VerdictOf(exit) = FromMark(Mark)
    BY <1>6 DEF VerdictOf
  <2> QED BY <1>2, <1>6, <2>1
<1> QED BY <1>4, <1>5, <1>6

LEMMA VerifierEndsStep == ASSUME EvalInv, VerifierEnds PROVE EvalInv'
<1> USE DEF EvalInv
<1>1. pass.pc = "verify" /\ Underway /\ ~Over /\ ~Early /\ Living
  BY DEF VerifierEnds, Underway, Over, Early, Living
<1>2. PICK exit \in {"zero", "nonzero", "error"} :
          LET own == exit # "error"
              dead == InBox /\ ~box[Id].alive
          IN  /\ own \/ dead \/ FALSE \in Tries
              /\ Tally(own \/ dead)
              /\ cell' = [Noting(own \/ dead, cell) EXCEPT !.ran = @ \/ own,
                                                          !.verdict = VerdictOf(exit)]
  BY DEF VerifierEnds
<1> DEFINE own == exit # "error"
           dead == InBox /\ ~box[Id].alive
           fine == own \/ dead
<1>3. disk' = disk /\ box' = box /\ strays' = strays /\ report' = report
  BY DEF VerifierEnds
<1>4. /\ Id \in Ids /\ pass.mode \in Modes /\ Mark \in Marks /\ cell \in CellType
      /\ fine \in BOOLEAN /\ own \in BOOLEAN
  BY <1>1, CurrentId DEF TypeOK, PassType, DiskType, Mark
<1>5. faults' \in 0..MaxFaults
  <2>1. fine \in Tries
    BY <1>2, <1>4 DEF Tries
  <2>2. Tally(fine)
    BY <1>2
  <2> HIDE DEF fine
  <2> QED BY <2>1, <2>2, Tallied
<1>6. /\ cell' \in CellType /\ cell'.verdict = VerdictOf(exit) /\ cell'.wrote = cell.wrote
      /\ cell'.ran = (cell.ran \/ own) /\ cell'.timely = cell.timely
      /\ cell'.ended = cell.ended /\ cell'.clean = cell.clean
      /\ ~cell'.faulty => ~cell.faulty /\ fine
  <2> DEFINE d == Noting(fine, cell)
             ran == d.ran \/ own
  <2>1. /\ d \in CellType /\ d.wrote = cell.wrote /\ d.ran = cell.ran /\ d.timely = cell.timely
        /\ d.ended = cell.ended /\ d.clean = cell.clean
        /\ ~d.faulty => ~cell.faulty /\ fine
    <3> HIDE DEF fine
    <3> QED BY <1>4, NotingFields
  <2>2. cell' = [d EXCEPT !.ran = ran, !.verdict = VerdictOf(exit)]
    BY <1>2
  <2>3. ran \in BOOLEAN /\ VerdictOf(exit) \in Verdicts
    BY <1>4, VerdictMeaning
  <2>4. ran = (cell.ran \/ own)
    BY <2>1
  <2> HIDE DEF d, ran, fine, own
  <2>5. /\ cell' \in CellType /\ cell'.verdict = VerdictOf(exit) /\ cell'.wrote = d.wrote
        /\ cell'.ran = ran /\ cell'.timely = d.timely /\ cell'.ended = d.ended
        /\ cell'.clean = d.clean /\ cell'.faulty = d.faulty
    BY <2>1, <2>2, <2>3 DEF CellType
  <2> QED BY <2>1, <2>4, <2>5
<1>7. PICK pc \in {"remove", "row"} :
          Goto(pc) /\ (pc = "remove" => InBox) /\ (pc = "row" => ~InBox)
  BY DEF VerifierEnds, Settled
<1>8. /\ pass' \in PassType /\ pass'.pc = pc /\ pass'.n = pass.n /\ pass'.at = pass.at
      /\ pass'.mode = pass.mode /\ Id' = Id /\ InBox' = InBox
  BY <1>7, GotoFields DEF PCs
<1>9. Underway' /\ Over' /\ ~Early' /\ ~Living' /\ Mark' = Mark
  BY <1>3, <1>7, <1>8 DEF Underway, Over, Early, Living, Mark
<1>10. VerdictOf(exit) \in Verdicts /\ VerdictOf(exit) # "none"
  BY <1>4, VerdictMeaning DEF Verdicts
<1>11. TypeOK'
  BY <1>3, <1>5, <1>6, <1>8, <1>10 DEF TypeOK
<1>12. CellInv'
  BY <1>1, <1>6, <1>8, <1>9, <1>7 DEF CellInv
<1>13. GroundInv'
  <2>1. cell.timely /\ (pass.mode # "plain" => cell.ended) /\ (cell.wrote # "none" => cell.ran)
    BY <1>1 DEF CellInv
  <2>2. VerdictOf(exit) \in Capability => Mark # "none" \/ own
    BY <1>4, VerdictMeaning
  <2> QED BY <1>6, <1>8, <1>9, <2>1, <2>2 DEF GroundInv
<1>14. WrittenInv'
  <2>1. ASSUME InBox, cell.wrote # "none"
        PROVE  VerdictOf(exit) = FromMark(cell.wrote)
    <3>1. Mark = cell.wrote
      BY <1>1, <2>1 DEF WrittenInv
    <3> QED BY <1>4, <2>1, <3>1, VerdictMeaning
  <2>2. FromMark(cell.wrote)' = FromMark(cell'.wrote)
    BY <1>8 DEF FromMark
  <2> QED BY <1>6, <1>8, <1>9, <1>7, <2>1, <2>2 DEF WrittenInv
<1>15. PlaceInv' /\ StrayInv'
  BY <1>1, <1>3, <1>7, <1>8, <1>9, PlaceKept, StrayKept
<1>16. BoxInv'
  <2>1. pc = "row" => box[Id].run # pass.n
    BY <1>1, <1>7 DEF BoxInv, PlaceInv, Id
  <2> QED BY <1>1, <1>3, <1>8, <1>9, <2>1, BoxKept
<1>17. CleanInv'
  <2>1. ASSUME InBox, Id \in HasImage, ~cell'.faulty
        PROVE  cell'.clean /\ cell'.verdict # "InfraFailure"
    <3>1. ~cell.faulty /\ fine
      BY <1>6, <2>1
    <3>2. cell.clean /\ box[Id].alive
      BY <1>1, <2>1, <3>1 DEF CleanInv
    <3>3. own
      BY <3>1, <3>2
    <3> QED BY <1>4, <1>6, <2>1, <3>2, <3>3, VerdictMeaning
  <2> QED BY <1>7, <1>8, <1>9, <2>1 DEF CleanInv
<1> QED BY <1>11, <1>12, <1>13, <1>14, <1>15, <1>16, <1>17

LEMMA GradeTimeoutStep == ASSUME EvalInv, GradeTimeout PROVE EvalInv'
<1> USE DEF EvalInv
<1>1. pass.pc = "verify" /\ Underway /\ ~Over /\ ~Early /\ Living
  BY DEF GradeTimeout, Underway, Over, Early, Living
<1>2. /\ cell' = [Noting(FALSE, cell) EXCEPT !.timely = FALSE, !.verdict = "InfraFailure"]
      /\ strays' = strays \cup {Verifier}
      /\ disk' = disk /\ box' = box /\ report' = report /\ faults' = faults
  BY DEF GradeTimeout
<1>3. /\ Id \in Ids /\ pass.at \in DOMAIN Slice /\ pass.n \in Runs /\ pass.mode \in Modes
      /\ cell \in CellType
  BY <1>1, CurrentId DEF TypeOK, PassType, PlaceInv
<1>4. PICK pc \in {"remove", "row"} :
          Goto(pc) /\ (pc = "remove" => InBox) /\ (pc = "row" => ~InBox)
  BY DEF GradeTimeout, Settled
<1>5. /\ pass' \in PassType /\ pass'.pc = pc /\ pass'.n = pass.n /\ pass'.at = pass.at
      /\ pass'.mode = pass.mode /\ Id' = Id /\ InBox' = InBox
  BY <1>4, GotoFields DEF PCs
<1>6. Underway' /\ Over' /\ ~Early' /\ ~Living'
  BY <1>4, <1>5 DEF Underway, Over, Early, Living
<1>7. /\ cell' \in CellType /\ cell'.verdict = "InfraFailure" /\ ~cell'.timely /\ cell'.faulty
      /\ cell'.wrote = cell.wrote /\ cell'.ran = cell.ran
  <2>1. /\ Noting(FALSE, cell) \in CellType /\ Noting(FALSE, cell).wrote = cell.wrote
        /\ Noting(FALSE, cell).ran = cell.ran /\ Noting(FALSE, cell).faulty
    BY <1>3, NotingFields
  <2> QED BY <1>2, <2>1 DEF CellType, Verdicts
<1>8. Verifier \in [mode : Modes, id : Ids, run : Runs]
  BY <1>3 DEF Verifier
<1>9. TypeOK'
  BY <1>2, <1>5, <1>7, <1>8 DEF TypeOK
<1>10. CellInv'
  BY <1>1, <1>4, <1>5, <1>6, <1>7 DEF CellInv
<1>11. GroundInv' /\ WrittenInv' /\ CleanInv'
  BY <1>4, <1>5, <1>6, <1>7 DEF GroundInv, WrittenInv, CleanInv, Capability
<1>12. PlaceInv'
  BY <1>1, <1>4, <1>5, PlaceKept
<1>13. BoxInv'
  <2>1. pc = "row" => box[Id].run # pass.n
    BY <1>1, <1>4 DEF BoxInv, PlaceInv, Id
  <2> QED BY <1>1, <1>2, <1>5, <1>6, <2>1, BoxKept
<1>14. StrayInv'
  <2>1. Verifier.run = pass.n /\ Verifier.id = Id
    BY DEF Verifier
  <2>2. \A s \in strays' : s.run <= pass.n
    <3>1. pass.n <= pass.n
      BY <1>3, EvalAssumption DEF Runs
    <3> QED BY <1>2, <2>1, <3>1 DEF StrayInv
  <2>3. ASSUME NEW s \in strays', NEW j \in DOMAIN Slice,
               s.mode = "container" /\ s.run = pass.n, j > pass.at
        PROVE  s.id # Slice[j]
    <3>1. CASE s \in strays
      BY <1>1, <2>3, <3>1 DEF StrayInv
    <3>2. CASE s = Verifier
      BY <1>3, <2>1, <2>3, <3>2, Later
    <3> QED BY <1>2, <3>1, <3>2
  <2> QED BY <1>5, <1>6, <2>2, <2>3 DEF StrayInv
<1> QED BY <1>9, <1>10, <1>11, <1>12, <1>13, <1>14

\* A stray writes into the current grading's file only if the file has been decided on.
LEMMA StrayWritesStep == ASSUME EvalInv, StrayWrites PROVE EvalInv'
<1> USE DEF EvalInv
<1>1. PICK s \in strays, says \in Says :
          /\ s.mode = "container" => box[s.id] = [run |-> s.run, alive |-> TRUE]
          /\ disk' = [disk EXCEPT ![s.id].mark[s.mode] = says]
          /\ strays' = strays \ {s}
  BY DEF StrayWrites
<1>2. pass' = pass /\ box' = box /\ cell' = cell /\ report' = report /\ faults' = faults
  BY DEF StrayWrites
<1>3. s \in [mode : Modes, id : Ids, run : Runs] /\ says \in Marks /\ says # "none"
  BY DEF TypeOK, Marks, Says
<1>4. /\ disk' \in [Ids -> DiskType] /\ disk'[s.id].mark[s.mode] = says
      /\ \A i \in Ids, k \in Modes :
             i # s.id \/ k # s.mode => disk'[i].mark[k] = disk[i].mark[k]
      /\ \A i \in Ids : disk'[i].root = disk[i].root /\ disk'[i].dump = disk[i].dump
  <2>1. disk \in [Ids -> DiskType] /\ s.id \in Ids /\ s.mode \in Modes
    BY <1>3 DEF TypeOK
  <2>2. disk' = [disk EXCEPT ![s.id].mark[s.mode] = says]
    BY <1>1
  <2> QED BY <1>3, <2>1, <2>2, MarkWritten
<1>5. Id' = Id /\ InBox' = InBox /\ (Underway' <=> Underway)
      /\ (Over' <=> Over) /\ (Early' <=> Early) /\ (Living' <=> Living)
  BY <1>2 DEF Id, InBox, Underway, Over, Early, Living
<1>6. pass.mode \in Modes /\ (Underway => Id \in Ids /\ pass.at \in DOMAIN Slice)
  BY CurrentId DEF TypeOK, PassType, PlaceInv
<1>7. Underway => Mark' = Mark \/ (Mark' = says /\ s.id = Id /\ s.mode = pass.mode)
  BY <1>2, <1>4, <1>5, <1>6 DEF Mark
<1>8. TypeOK'
  <2>1. strays' \subseteq [mode : Modes, id : Ids, run : Runs]
    BY <1>1 DEF TypeOK
  <2> QED BY <1>2, <1>4, <2>1 DEF TypeOK
<1>9. CellInv'
  BY <1>2, <1>4, <1>5, <1>6 DEF CellInv, Underway
<1>10. GroundInv'
  <2>1. Over => Underway
    BY DEF Over, Underway
  <2> QED BY <1>2, <1>3, <1>5, <1>7, <2>1 DEF GroundInv
<1>11. WrittenInv'
  <2>1. ASSUME pass.pc = "verify", InBox
        PROVE  Mark' = Mark
    <3>1. Underway /\ Living /\ ~Over
      BY <2>1 DEF Underway, Living, Over
    <3>2. ASSUME s.id = Id, s.mode = "container"
          PROVE  FALSE
      <4>1. box[Id].run = s.run
        BY <1>1, <3>2
      <4>2. s.run = pass.n
        BY <2>1, <3>1, <4>1 DEF BoxInv
      <4> QED BY <1>6, <3>1, <3>2, <4>2 DEF StrayInv, Id
    <3> QED BY <1>7, <2>1, <3>1, <3>2 DEF InBox
  <2>2. FromMark(cell.wrote)' = FromMark(cell.wrote)
    BY <1>2 DEF FromMark
  <2> QED BY <1>2, <1>5, <2>1, <2>2 DEF WrittenInv
<1>12. PlaceInv' /\ BoxInv' /\ StrayInv'
  <2>1. /\ pass'.pc \in {"boot", "preclean", "remove"} => InBox
        /\ pass'.pc = "row" /\ box[Id].run = pass.n /\ box[Id].alive => cell'.leaks
    BY <1>2 DEF PlaceInv, BoxInv
  <2>2. strays' \subseteq strays
    BY <1>1
  <2> QED BY <1>2, <1>5, <2>1, <2>2, PlaceKept, BoxKept, StrayKept
<1>13. CleanInv'
  BY <1>2, <1>4, <1>5, <1>6 DEF CleanInv
<1> QED BY <1>8, <1>9, <1>10, <1>11, <1>12, <1>13

LEMMA CleanUpStep == ASSUME EvalInv, CleanUp PROVE EvalInv'
<1> USE DEF EvalInv
<1>1. pass.pc = "remove" /\ Underway /\ ~Early /\ ~Living /\ Over /\ InBox
  BY DEF CleanUp, Underway, Early, Living, Over, PlaceInv
<1>2. /\ pass' \in PassType /\ pass'.pc = "row" /\ pass'.n = pass.n /\ pass'.at = pass.at
      /\ pass'.mode = pass.mode /\ Id' = Id /\ InBox' = InBox
  BY GotoFields DEF CleanUp, PCs
<1>3. PICK ok \in Tries : Remove(ok) /\ cell' = [Noting(ok, cell) EXCEPT !.leaks = ~ok]
  BY DEF CleanUp
<1>4. /\ ok \in BOOLEAN /\ faults' \in 0..MaxFaults
      /\ box' \in [Ids -> [run : Runs, alive : BOOLEAN]]
      /\ strays' \subseteq strays
      /\ IF ok THEN box'[Id] = NoBox ELSE box' = box
      /\ \A id \in Ids : box'[id] = box[id] \/ box'[id] = NoBox
  BY <1>1, <1>3, Removed
<1>5. /\ cell' \in CellType /\ cell'.verdict = cell.verdict /\ cell'.wrote = cell.wrote
      /\ cell'.timely = cell.timely /\ cell'.ended = cell.ended /\ cell'.ran = cell.ran
      /\ cell'.clean = cell.clean /\ (~cell'.faulty => ~cell.faulty) /\ (~ok => cell'.leaks)
  <2>1. cell \in CellType
    BY DEF TypeOK
  <2>2. /\ Noting(ok, cell) \in CellType /\ Noting(ok, cell).verdict = cell.verdict
        /\ Noting(ok, cell).wrote = cell.wrote /\ Noting(ok, cell).timely = cell.timely
        /\ Noting(ok, cell).ended = cell.ended /\ Noting(ok, cell).ran = cell.ran
        /\ Noting(ok, cell).clean = cell.clean /\ (~Noting(ok, cell).faulty => ~cell.faulty)
    BY <1>4, <2>1, NotingFields
  <2> DEFINE c == Noting(ok, cell)
  <2> HIDE DEF c
  <2> QED BY <1>3, <1>4, <2>2 DEF CellType, c
<1>6. disk' = disk /\ report' = report /\ Mark' = Mark
  BY <1>2 DEF CleanUp, Mark
<1>7. Underway' /\ ~Early' /\ ~Living' /\ Over'
  BY <1>2 DEF Underway, Early, Living, Over
<1>8. TypeOK'
  <2>1. strays' \subseteq [mode : Modes, id : Ids, run : Runs]
    BY <1>4 DEF TypeOK
  <2> QED BY <1>1, <1>2, <1>4, <1>5, <1>6, <2>1 DEF TypeOK
<1>9. CellInv' /\ GroundInv'
  BY <1>1, <1>2, <1>5, <1>6, <1>7 DEF CellInv, GroundInv
<1>10. WrittenInv'
  <2>1. FromMark(cell.wrote)' = FromMark(cell'.wrote)
    BY <1>2 DEF FromMark
  <2> QED BY <1>1, <1>2, <1>5, <1>7, <2>1 DEF WrittenInv
<1>11. PlaceInv' /\ StrayInv'
  BY <1>1, <1>2, <1>4, <1>7, PlaceKept, StrayKept
<1>12. BoxInv'
  <2>1. box'[Id].alive => cell'.leaks
    BY <1>4, <1>5 DEF NoBox
  <2> QED BY <1>1, <1>2, <1>4, <1>7, <2>1, EmptyBoxes
<1>13. CleanInv'
  BY <1>1, <1>2, <1>5, <1>7 DEF CleanInv
<1> QED BY <1>8, <1>9, <1>10, <1>11, <1>12, <1>13

-----------------------------------------------------------------------------
(* The report *)

LEMMA AddRowStep == ASSUME EvalInv, AddRow PROVE EvalInv'
<1> USE DEF EvalInv
<1>1. pass.pc = "row" /\ Underway /\ Over
  BY DEF AddRow, Underway, Over
<1> DEFINE dump == IF pass.mode = "plain" THEN NoDump ELSE disk[Id].dump
           last == pass.at = Len(Slice)
<1>2. PICK ok \in Tries :
          LET facts == IF ok THEN dump.run ELSE 0
          IN  /\ Tally(ok)
              /\ disk' = [disk EXCEPT ![Id].dump = dump]
              /\ IF ~ok /\ ~cell.early THEN Quit(2) /\ UNCHANGED cell
                 ELSE /\ pass' = [pass EXCEPT
                              !.rows = Append(@, [id |-> Id, verdict |-> cell.verdict,
                                                  facts |-> facts]),
                              !.at = IF last THEN @ ELSE @ + 1,
                              !.pc = IF last THEN "report" ELSE "home"]
                      /\ cell' = FreshCell
  BY DEF AddRow
<1> DEFINE facts == IF ok THEN dump.run ELSE 0
           row == [id |-> Id, verdict |-> cell.verdict, facts |-> facts]
<1>3. ok \in BOOLEAN /\ faults' \in 0..MaxFaults
  BY <1>2, Tallied
<1>4. box' = box /\ strays' = strays /\ report' = report
  BY DEF AddRow
<1>5. Id \in Ids /\ pass.at \in DOMAIN Slice /\ 0 \in Runs /\ pass \in PassType
  BY <1>1, CurrentId, EvalAssumption DEF PlaceInv, Runs, TypeOK
<1>6. dump \in [run : Runs, ended : BOOLEAN]
  BY <1>5 DEF TypeOK, DiskType, NoDump
<1>7. disk' \in [Ids -> DiskType]
  <2> HIDE DEF dump
  <2> QED BY <1>2, <1>5, <1>6 DEF TypeOK, DiskType
<1>8. row \in Row
  <2>1. facts \in Runs
    <3> HIDE DEF dump
    <3> QED BY <1>5, <1>6
  <2>2. cell.verdict \in Verdicts
    BY <1>1 DEF TypeOK, CellType
  <2> HIDE DEF facts
  <2> QED BY <1>5, <2>1, <2>2 DEF Row
<1>9. \A s \in strays' : s.run <= pass.n
  BY <1>4 DEF StrayInv
<1>10. CASE ~ok /\ ~cell.early
  <2>1. Quit(2) /\ cell' = cell /\ 2 \in {0, 2}
    BY <1>2, <1>10
  <2>2. pass' \in PassType /\ pass'.pc = "done" /\ pass'.n = pass.n
    BY <2>1, QuitFields
  <2>3. TypeOK'
    BY <1>3, <1>4, <1>7, <2>1, <2>2 DEF TypeOK
  <2> QED BY <1>4, <1>9, <2>1, <2>2, <2>3, Closing
<1>11. CASE ~(~ok /\ ~cell.early)
  <2>1. cell' = FreshCell
    BY <1>2, <1>11
  <2>2. pass' = [pass EXCEPT !.rows = Append(@, row), !.at = IF last THEN @ ELSE @ + 1,
                             !.pc = IF last THEN "report" ELSE "home"]
    BY <1>2, <1>11
  <2>3. Append(pass.rows, row) \in Seq(Row)
    <3>1. pass.rows \in Seq(Row)
      BY <1>5 DEF PassType
    <3> HIDE DEF row
    <3> QED BY <1>8, <3>1
  <2> HIDE DEF dump, facts, row
  <2>4. CASE last
    <3>1. /\ pass' \in PassType /\ pass'.pc = "report" /\ pass'.n = pass.n
      <4>1. pass' = [pass EXCEPT !.rows = Append(@, row), !.at = @, !.pc = "report"]
        BY <2>2, <2>4
      <4>2. pass' = [n |-> pass.n, mode |-> pass.mode, at |-> pass.at,
                     rows |-> Append(pass.rows, row), code |-> pass.code, pc |-> "report"]
        BY <1>5, <4>1 DEF PassType
      <4> QED BY <1>5, <2>3, <4>2 DEF PassType, PCs
    <3>2. TypeOK'
      BY <1>3, <1>4, <1>7, <2>1, <3>1, FreshFields DEF TypeOK
    <3> QED BY <1>4, <1>9, <2>1, <3>1, <3>2, Closing
  <2>5. CASE ~last
    <3>1. pass.at + 1 \in DOMAIN Slice
      <4>1. Len(Slice) \in Nat /\ DOMAIN Slice = 1..Len(Slice)
        BY EvalAssumption, LenProperties
      <4> QED BY <1>5, <2>5, <4>1
    <3>2. /\ pass' \in PassType /\ pass'.pc = "home" /\ pass'.n = pass.n
          /\ pass'.at = pass.at + 1 /\ pass'.mode = pass.mode /\ InBox' = InBox
      <4>1. pass' = [pass EXCEPT !.rows = Append(@, row), !.at = @ + 1, !.pc = "home"]
        BY <2>2, <2>5
      <4>2. pass' = [n |-> pass.n, mode |-> pass.mode, at |-> pass.at + 1,
                     rows |-> Append(pass.rows, row), code |-> pass.code, pc |-> "home"]
        BY <1>5, <4>1 DEF PassType
      <4>3. pass.at + 1 \in Nat
        BY <1>5 DEF PassType
      <4> QED BY <1>5, <2>3, <4>2, <4>3 DEF PassType, PCs, InBox
    <3>3. TypeOK'
      BY <1>3, <1>4, <1>7, <2>1, <3>2, FreshFields DEF TypeOK
    <3>4. Underway' /\ Early' /\ ~Living' /\ ~Over'
      BY <3>2 DEF Underway, Early, Living, Over
    <3>5. CellInv' /\ GroundInv' /\ WrittenInv'
      BY <2>1, <3>2, FreshFields, Undecided
    <3>6. \A j \in DOMAIN Slice : j \in Nat /\ (j > pass.at + 1 \/ j = pass.at + 1 => j > pass.at)
      <4>1. Len(Slice) \in Nat /\ DOMAIN Slice = 1..Len(Slice)
        BY EvalAssumption, LenProperties
      <4> QED BY <1>5, <4>1
    <3>7. PlaceInv'
      <4>1. pass.n # 0
        BY <1>1 DEF PlaceInv
      <4> QED BY <3>1, <3>2, <4>1 DEF PlaceInv
    <3>8. BoxInv' /\ StrayInv'
      BY <1>1, <1>4, <3>2, <3>4, <3>6 DEF BoxInv, StrayInv
    <3>9. CleanInv'
      BY <3>2, <3>4 DEF CleanInv
    <3> QED BY <3>3, <3>5, <3>7, <3>8, <3>9
  <2> QED BY <2>4, <2>5
<1> QED BY <1>10, <1>11

LEMMA FinishReportStep == ASSUME EvalInv, FinishReport PROVE EvalInv'
<1> USE DEF EvalInv
<1>1. PICK ok \in Tries :
          /\ Tally(ok)
          /\ report' = IF ok THEN [run |-> pass.n, rows |-> pass.rows] ELSE report
          /\ Quit(IF ok THEN 0 ELSE 2)
  BY DEF FinishReport
<1>2. disk' = disk /\ box' = box /\ strays' = strays /\ cell' = cell
  BY DEF FinishReport
<1>3. ok \in BOOLEAN /\ faults' \in 0..MaxFaults
  BY <1>1, Tallied
<1>4. pass' \in PassType /\ pass'.pc = "done" /\ pass'.n = pass.n
  <2>1. PICK code \in {0, 2} : Quit(code)
    BY <1>1
  <2> QED BY <2>1, QuitFields
<1>5. report' \in [run : Runs, rows : Seq(Row)]
  BY <1>1 DEF TypeOK, PassType
<1>6. TypeOK'
  BY <1>2, <1>3, <1>4, <1>5 DEF TypeOK
<1>7. \A s \in strays' : s.run <= pass.n
  BY <1>2 DEF StrayInv
<1> QED BY <1>2, <1>4, <1>6, <1>7, Closing

LEMMA KillStep == ASSUME EvalInv, Kill PROVE EvalInv'
<1> USE DEF EvalInv
<1>1. /\ pass' = [pass EXCEPT !.pc = "off", !.rows = <<>>]
      /\ disk' = IF pass.pc = "agent"
                 THEN [disk EXCEPT ![Id].dump = [run |-> pass.n, ended |-> FALSE]] ELSE disk
      /\ strays' = IF pass.pc = "verify" THEN strays \cup {Verifier} ELSE strays
      /\ cell' = FreshCell
      /\ box' = box /\ report' = report /\ faults' = faults
  BY DEF Kill
<1>2. pass \in PassType /\ pass.n \in Runs /\ pass.mode \in Modes
  BY DEF TypeOK, PassType
<1>3. pass' \in PassType /\ pass'.pc = "off" /\ pass'.n = pass.n
  <2>1. pass' = [n |-> pass.n, mode |-> pass.mode, at |-> pass.at, rows |-> <<>>,
                 code |-> pass.code, pc |-> "off"]
    BY <1>1, <1>2 DEF PassType
  <2>2. <<>> \in Seq(Row)
    OBVIOUS
  <2> QED BY <1>2, <2>1, <2>2 DEF PassType, PCs
<1>4. disk' \in [Ids -> DiskType]
  <2>1. disk \in [Ids -> DiskType]
    BY DEF TypeOK
  <2>2. CASE pass.pc = "agent"
    <3>1. Id \in Ids
      BY <2>2, CurrentId DEF Underway
    <3> QED BY <1>1, <1>2, <2>1, <2>2, <3>1 DEF DiskType
  <2> QED BY <1>1, <2>1, <2>2
<1>5. /\ strays' \subseteq [mode : Modes, id : Ids, run : Runs]
      /\ \A s \in strays' : s.run <= pass.n
  <2>1. strays \subseteq [mode : Modes, id : Ids, run : Runs]
    BY DEF TypeOK
  <2>2. \A s \in strays : s.run <= pass.n
    BY DEF StrayInv
  <2>3. CASE pass.pc = "verify"
    <3>1. Id \in Ids
      BY <2>3, CurrentId DEF Underway
    <3>2. Verifier \in [mode : Modes, id : Ids, run : Runs] /\ Verifier.run = pass.n
      BY <1>2, <3>1 DEF Verifier
    <3>3. pass.n <= pass.n
      BY <1>2, EvalAssumption DEF Runs
    <3> QED BY <1>1, <2>1, <2>2, <2>3, <3>2, <3>3
  <2> QED BY <1>1, <2>1, <2>2, <2>3
<1>6. TypeOK'
  BY <1>1, <1>3, <1>4, <1>5, FreshFields DEF TypeOK
<1> QED BY <1>1, <1>3, <1>5, <1>6, Closing

-----------------------------------------------------------------------------
(* The theorems *)

LEMMA InitHolds == ASSUME Init PROVE EvalInv
<1>1. /\ pass = [n |-> 0, mode |-> "plain", at |-> 1, rows |-> <<>>, code |-> 0, pc |-> "off"]
      /\ disk = [id \in Ids |-> [root |-> FALSE, dump |-> NoDump,
                                 mark |-> [m \in Modes |-> "none"]]]
      /\ box = [id \in Ids |-> NoBox] /\ strays = {} /\ cell = FreshCell
      /\ report = NoReport /\ faults = 0
  BY DEF Init
<1>2. 0 \in Runs /\ 0 \in 0..MaxFaults
  BY EvalAssumption DEF Runs
<1>3. pass \in PassType
  <2>1. <<>> \in Seq(Row)
    OBVIOUS
  <2> QED BY <1>1, <1>2, <2>1 DEF PassType, Modes, PCs
<1>4. disk \in [Ids -> DiskType]
  <2>1. [m \in Modes |-> "none"] \in [Modes -> Marks]
    BY DEF Marks
  <2>2. NoDump \in [run : Runs, ended : BOOLEAN]
    BY <1>2 DEF NoDump
  <2> QED BY <1>1, <2>1, <2>2 DEF DiskType
<1>5. box \in [Ids -> [run : Runs, alive : BOOLEAN]]
  BY <1>1, <1>2 DEF NoBox
<1>6. report \in [run : Runs, rows : Seq(Row)]
  BY <1>1, <1>2 DEF NoReport
<1>7. TypeOK
  BY <1>1, <1>2, <1>3, <1>4, <1>5, <1>6, FreshFields DEF TypeOK
<1>8. ~Underway /\ ~Early /\ ~Living /\ ~Over
  BY <1>1 DEF Underway, Early, Living, Over
<1>9. PlaceInv /\ CellInv /\ GroundInv /\ StrayInv /\ WrittenInv /\ CleanInv
  BY <1>1, <1>8, FreshFields DEF PlaceInv, CellInv, GroundInv, StrayInv, WrittenInv, CleanInv
<1>10. BoxInv
  <2>1. \A id \in Ids : box[id].run = 0 /\ ~box[id].alive
    BY <1>1 DEF NoBox
  <2>2. pass.n = 0
    BY <1>1
  <2> QED BY <1>1, <1>8, <2>1, <2>2 DEF BoxInv
<1> QED BY <1>7, <1>9, <1>10 DEF EvalInv

LEMMA StutterStep == ASSUME EvalInv, UNCHANGED vars PROVE EvalInv'
BY DEF EvalInv, vars, TypeOK, PlaceInv, CellInv, GroundInv, BoxInv, StrayInv, WrittenInv, CleanInv,
       Underway, Early, Living, Over, InBox, Id, Mark, FromMark

\* What is known of a pass over a slice (eval_agent.rs, eval_cmd.rs) between any two of its
\* steps: which container and which verifier are its own, and what a verdict rests on.
THEOREM EvalInvariant == Spec => []EvalInv
<1>1. Init => EvalInv
  BY InitHolds
<1>2. EvalInv /\ [Next]_vars => EvalInv'
  <2> SUFFICES ASSUME EvalInv, [Next]_vars
               PROVE  EvalInv'
    OBVIOUS
  <2>1. CASE Begin
    BY <2>1, BeginStep
  <2>2. CASE Harness
    BY <2>2, OpenHomeStep, WipeStep, SeedStep, PrecleanStep, BootStep, AgentEndsStep, GradeStep,
       GradeTimeoutStep, CleanUpStep, AddRowStep, FinishReportStep DEF Harness
  <2>3. CASE World
    BY <2>3, AgentWorksStep, BoxDiesStep, VerifierWritesStep, VerifierEndsStep, StrayWritesStep
    DEF World
  <2>4. CASE Kill
    BY <2>4, KillStep
  <2>5. CASE UNCHANGED vars
    BY <2>5, StutterStep
  <2> QED BY <2>1, <2>2, <2>3, <2>4, <2>5 DEF Next
<1> QED BY <1>1, <1>2, PTL DEF Spec

\* A resolved or unresolved row is one whose agent run ended and whose verifier answered in
\* time and ran, or whose reward file was there before (run_one_agent_cell, grade_container).
THEOREM CapabilityGroundedAlways == Spec => []CapabilityGrounded
<1>1. EvalInv => CapabilityGrounded
  BY DEF EvalInv, GroundInv, CapabilityGrounded, Over, Decided
<1> QED BY <1>1, EvalInvariant, PTL

\* In the container no verifier of an earlier pass, killed or not, can overrule what this
\* grading's own verifier wrote: docker rm -f and the taken name keep it out.
THEOREM VerdictAsWrittenAlways == Spec => []VerdictAsWritten
<1>1. EvalInv => VerdictAsWritten
  BY DEF EvalInv, WrittenInv, VerdictAsWritten, Over, Decided
<1> QED BY <1>1, EvalInvariant, PTL

\* An instance of an in-container pass in which every call goes well starts on the task's own
\* files and is not an infrastructure failure, whatever earlier passes left (fresh_workdir,
\* rm_env_container).
THEOREM RerunScoresAlways == Spec => []RerunScores
<1>1. EvalInv => RerunScores
  <2> SUFFICES ASSUME EvalInv, Decided, InBox, Id \in HasImage, ~cell.faulty
               PROVE  cell.clean /\ cell.verdict # "InfraFailure"
    BY DEF RerunScores
  <2>1. pass.pc = "row" /\ Underway /\ Over
    BY DEF Decided, Underway, Over
  <2> QED BY <2>1 DEF EvalInv, CleanInv
<1> QED BY <1>1, EvalInvariant, PTL

\* A pass that is done with an instance leaves no container of its own running, unless docker
\* rm failed (run_one_agent_cell's clean-up on every path).
THEOREM NoBoxLeftAlways == Spec => []NoBoxLeft
<1>1. EvalInv => NoBoxLeft
  BY DEF EvalInv, BoxInv, NoBoxLeft, Decided
<1> QED BY <1>1, EvalInvariant, PTL


=============================================================================

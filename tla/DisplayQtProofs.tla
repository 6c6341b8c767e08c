--------------------------- MODULE DisplayQtProofs --------------------------
(***************************************************************************)
(* Proofs about DisplayQt, for any files, any configurations and any       *)
(* numbers of parts.                                                       *)
(***************************************************************************)
EXTENDS DisplayQt, FiniteSetTheorems, SequenceTheorems, TLAPS

(* What the types leave open: the spin box is a value up to a maximum.     *)
Spins == {s \in [value : Nat, max : Nat] : s.value <= s.max}

(* Only the page of what runs is enabled.                                  *)
PagesFit ==
    /\ state = "DISPLAY" => tabs = {"task"}
    /\ state = "CALIBRATE" => tabs = {"calibration"}

(* A list is about one task, with the task's number of parts.              *)
ListFits ==
    m_undone_part_ids # <<>> =>
        /\ m_part_num = PartNumOf[listed[1]][listed[2]]
        /\ \A i \in 1 .. Len(m_undone_part_ids) : m_undone_part_ids[i] < m_part_num

(* A status is old, but never short of a part.                             *)
Fresh == published # NoStatus => missing \subseteq published

(* What would be missing after a kill and is not in the list, a killed     *)
(* receiver had published as done, or this one has, and not flushed it.    *)
Told ==
    OfReceiver => (missing \cup unsaved) \ (outdated \cup Unkept) \subseteq ToSet(m_undone_part_ids)

IInv ==
    /\ TypeOK /\ spin \in Spins /\ PagesFit /\ ListFits /\ Fresh /\ Told
    /\ Shown /\ NothingSkipped /\ FailuresExplained

-----------------------------------------------------------------------------
(* The sorted list of a finite set of part numbers has the elements of the *)
(* set: the rank of an element is one to one, so every rank is taken.      *)
Below(ids, id) == {other \in ids : other < id}

LEMMA RankBounded ==
  ASSUME NEW ids \in SUBSET Nat, IsFiniteSet(ids), NEW id \in ids
  PROVE  Cardinality(Below(ids, id)) \in 0 .. Cardinality(ids) - 1
<1>0. ~(id < id)
  <2>1. id \in Nat
    OBVIOUS
  <2>. QED
    BY <2>1
<1>1. Below(ids, id) \in SUBSET ids /\ id \notin Below(ids, id)
  BY <1>0 DEF Below
<1>2. /\ IsFiniteSet(Below(ids, id))
      /\ Cardinality(Below(ids, id)) <= Cardinality(ids)
      /\ Cardinality(Below(ids, id)) # Cardinality(ids)
  BY <1>1, FS_Subset
<1>3. Cardinality(Below(ids, id)) \in Nat /\ Cardinality(ids) \in Nat
  BY <1>2, FS_CardinalityType
<1>. QED
  BY <1>2, <1>3

LEMMA RankGrows ==
  ASSUME NEW ids \in SUBSET Nat, IsFiniteSet(ids), NEW x \in ids, NEW y \in ids, x < y
  PROVE  Cardinality(Below(ids, x)) < Cardinality(Below(ids, y))
<1>0. x \in Nat /\ y \in Nat /\ \A z \in ids : z \in Nat
  OBVIOUS
<1>1. Below(ids, x) \in SUBSET Below(ids, y) /\ x \in Below(ids, y) /\ x \notin Below(ids, x)
  <2>1. \A z \in ids : z < x => z < y
    BY <1>0
  <2>2. ~(x < x)
    BY <1>0
  <2>. QED
    BY <2>1, <2>2 DEF Below
<1>2. IsFiniteSet(Below(ids, y)) /\ IsFiniteSet(Below(ids, x))
  <2>1. Below(ids, y) \in SUBSET ids
    BY DEF Below
  <2>. QED
    BY <1>1, <2>1, FS_Subset
<1>3. /\ Cardinality(Below(ids, x)) <= Cardinality(Below(ids, y))
      /\ Cardinality(Below(ids, x)) # Cardinality(Below(ids, y))
  BY <1>1, <1>2, FS_Subset
<1>4. Cardinality(Below(ids, x)) \in Nat /\ Cardinality(Below(ids, y)) \in Nat
  BY <1>2, FS_CardinalityType
<1>. QED
  BY <1>3, <1>4

LEMMA RankTaken ==
  ASSUME NEW ids \in SUBSET Nat, IsFiniteSet(ids), NEW k \in 0 .. Cardinality(ids) - 1
  PROVE  \E id \in ids : Cardinality(Below(ids, id)) = k
<1> DEFINE ranks == 0 .. Cardinality(ids) - 1
           rank == [id \in ids |-> Cardinality(Below(ids, id))]
<1>1. Cardinality(ids) \in Nat
  BY FS_CardinalityType
<1>2. IsFiniteSet(ranks) /\ Cardinality(ranks) = Cardinality(ids)
  <2>1. CASE Cardinality(ids) = 0
    BY <1>1, <2>1, FS_Interval
  <2>2. CASE Cardinality(ids) > 0
    BY <1>1, <2>2, FS_Interval
  <2>. QED
    BY <1>1, <2>1, <2>2
<1>3. rank \in [ids -> ranks]
  BY RankBounded
<1>4. ASSUME NEW x \in ids, NEW y \in ids, rank[x] = rank[y]
      PROVE  x = y
  <2>1. ~(x < y) /\ ~(y < x)
    BY <1>3, <1>4, RankGrows
  <2>. QED
    BY <2>1
<1>5. rank \in Injection(ids, ranks)
  BY <1>3, <1>4 DEF Injection, IsInjective
<1>6. rank \in Surjection(ids, ranks)
  BY <1>2, <1>5, FS_Injection
<1>. QED
  BY <1>6 DEF Surjection

LEMMA SortedElements ==
  ASSUME NEW ids \in SUBSET Nat, IsFiniteSet(ids)
  PROVE  /\ Sorted(ids) \in Seq(Nat) /\ Len(Sorted(ids)) = Cardinality(ids)
         /\ ToSet(Sorted(ids)) = ids
         /\ \A i \in 1 .. Len(Sorted(ids)) : Sorted(ids)[i] \in ids
         /\ ids # {} => Len(Sorted(ids)) > 0 /\ Sorted(ids) # <<>>
<1> DEFINE n == Cardinality(ids)
<1>1. n \in Nat
  BY FS_CardinalityType
<1>2. ASSUME NEW i \in 1 .. n
      PROVE  Sorted(ids)[i] \in ids /\ Cardinality(Below(ids, Sorted(ids)[i])) = i - 1
  <2>1. PICK id \in ids : Cardinality(Below(ids, id)) = i - 1
    <3>1. i - 1 \in 0 .. Cardinality(ids) - 1
      BY <1>1
    <3>. QED
      BY <3>1, RankTaken
  <2>2. Sorted(ids)[i] = CHOOSE x \in ids : Cardinality(Below(ids, x)) = i - 1
    BY DEF Sorted, Below
  <2>. QED
    BY <2>1, <2>2
<1>3. Sorted(ids) \in [1 .. n -> ids]
  <2> DEFINE f(i) == CHOOSE id \in ids : Cardinality({other \in ids : other < id}) = i - 1
  <2>1. Sorted(ids) = [i \in 1 .. n |-> f(i)]
    BY DEF Sorted
  <2>2. \A i \in 1 .. n : f(i) \in ids
    BY <1>2, <2>1
  <2> HIDE DEF f
  <2>. QED
    BY <2>1, <2>2
<1>4. Sorted(ids) \in Seq(ids) /\ Len(Sorted(ids)) = n
  BY <1>1, <1>3, SeqDef, LenProperties
<1>5. ASSUME NEW id \in ids
      PROVE  \E i \in 1 .. n : Sorted(ids)[i] = id
  <2>1. Cardinality(Below(ids, id)) \in 0 .. n - 1
    BY RankBounded
  <2>2. PICK i \in 1 .. n : Cardinality(Below(ids, id)) = i - 1
    BY <1>1, <2>1
  <2>3. PICK x \in ids : x = Sorted(ids)[i] /\ Cardinality(Below(ids, x)) = i - 1
    BY <1>2
  <2>4. Cardinality(Below(ids, x)) = Cardinality(Below(ids, id)) /\ Cardinality(Below(ids, x)) \in Int
    BY <2>2, <2>3
  <2>5. ~(x < id)
    BY <2>4, RankGrows
  <2>6. ~(id < x)
    BY <2>4, RankGrows
  <2>7. x \in Nat /\ id \in Nat
    OBVIOUS
  <2>8. x = id
    BY <2>5, <2>6, <2>7
  <2>. QED
    BY <2>3, <2>8
<1>6. ToSet(Sorted(ids)) = ids
  BY <1>3, <1>2, <1>5 DEF ToSet
<1>7. ids # {} => n # 0
  BY FS_EmptySet
<1>8. n > 0 => Sorted(ids) # <<>>
  BY <1>4, EmptySeq
<1>9. Sorted(ids) \in Seq(Nat)
  BY <1>4, SeqMonotonic
<1>. QED
  BY <1>1, <1>2, <1>4, <1>6, <1>7, <1>8, <1>9

-----------------------------------------------------------------------------
(* The spin box. A value that is set is kept below the maximum, and what is *)
(* current and shown follow it when it changes.                            *)
Positions == [spin : Spins, cur : Nat, shown : Nat \cup {NoPart}]

LEMMA SetValueFits ==
  ASSUME NEW pos \in Positions, NEW v \in Nat
  PROVE  LET r == SetValue(pos, v)
         IN  /\ r \in Positions /\ r.spin.max = pos.spin.max
             /\ pos.spin.value = pos.cur /\ pos.shown = pos.cur => r.spin.value = r.cur /\ r.shown = r.cur
             /\ pos.cur = v /\ v <= pos.spin.max => r.spin.value = v /\ r.cur = v
             /\ r.cur = pos.cur \/ r.cur <= v
<1> DEFINE w == IF v <= pos.spin.max THEN v ELSE pos.spin.max
<1>1. pos.spin \in Spins /\ pos.spin.max \in Nat /\ pos.spin.value \in Nat /\ pos.cur \in Nat
  BY DEF Positions, Spins
<1>2. w \in Nat /\ w <= pos.spin.max /\ w <= v
  BY <1>1
<1>3. CASE w = pos.spin.value
  <2>1. SetValue(pos, v) = pos
    BY <1>3 DEF SetValue
  <2>. QED
    BY <1>1, <1>2, <1>3, <2>1
<1>4. CASE w # pos.spin.value
  <2> DEFINE turned == [pos.spin EXCEPT !.value = w]
  <2>1. SetValue(pos, v) = [spin |-> turned, cur |-> w, shown |-> w]
    BY <1>4 DEF SetValue
  <2>2. turned \in Spins /\ turned.max = pos.spin.max /\ turned.value = w
    BY <1>1, <1>2 DEF Spins
  <2> HIDE DEF turned
  <2>3. SetValue(pos, v) \in Positions
    BY <1>2, <2>1, <2>2 DEF Positions
  <2>. QED
    BY <1>1, <1>2, <2>1, <2>2, <2>3
<1>. QED
  BY <1>3, <1>4

(* A maximum that is set is one above no current part that was.            *)
LEMMA SetMaximumFits ==
  ASSUME NEW pos \in Positions, NEW max \in Nat, pos.cur <= max
  PROVE  LET r == SetMaximum(pos, max)
         IN  r \in Positions /\ r.spin.max = max /\ r.cur <= max
<1> DEFINE p == [pos EXCEPT !.spin.max = max]
<1>1. pos.spin \in [value : Nat, max : Nat] /\ pos.cur \in Nat /\ pos.shown \in Nat \cup {NoPart}
  BY DEF Positions, Spins
<1>2. p = [spin |-> [value |-> pos.spin.value, max |-> max], cur |-> pos.cur, shown |-> pos.shown]
  BY <1>1 DEF Positions
<1>3. CASE pos.spin.value <= max
  <2>1. SetMaximum(pos, max) = p
    BY <1>3 DEF SetMaximum
  <2>. QED
    BY <1>1, <1>2, <1>3, <2>1 DEF Positions, Spins
<1>4. CASE ~(pos.spin.value <= max)
  <2> DEFINE turned == [value |-> max, max |-> max]
  <2>1. SetMaximum(pos, max) = SetValue(p, max)
    BY <1>4 DEF SetMaximum
  <2>2. p.spin.value = pos.spin.value /\ p.spin.max = max /\ max # pos.spin.value /\ max <= max
    BY <1>1, <1>2, <1>4
  <2>3. SetValue(p, max) = [spin |-> [p.spin EXCEPT !.value = max], cur |-> max, shown |-> max]
    BY <2>2 DEF SetValue
  <2>4. [p.spin EXCEPT !.value = max] = turned
    <3>1. p.spin = [value |-> pos.spin.value, max |-> max]
      BY <1>2
    <3> HIDE DEF p
    <3>. QED
      BY <3>1
  <2>5. turned \in Spins /\ turned.max = max
    BY DEF Spins
  <2> HIDE DEF turned, p
  <2>6. SetMaximum(pos, max) = [spin |-> turned, cur |-> max, shown |-> max]
    BY <2>1, <2>3, <2>4
  <2>. QED
    BY <2>5, <2>6 DEF Positions
<1>. QED
  BY <1>3, <1>4

-----------------------------------------------------------------------------
(* The lists.                                                              *)
LEMMA TaskFits ==
  ASSUME NEW t \in Tasks
  PROVE  /\ t[1] \in Files /\ t[2] \in Configs /\ t = <<t[1], t[2]>>
         /\ PartNumOf[t[1]][t[2]] \in Nat /\ PartNumOf[t[1]][t[2]] > 0
BY DisplayQtAssumption DEF Tasks

LEMMA ListOfPart ==
  ASSUME NEW t \in Tasks, NEW ids \in SUBSET PartIds(t)
  PROVE  /\ Sorted(ids) \in Seq(Nat) /\ ToSet(Sorted(ids)) = ids
         /\ \A i \in 1 .. Len(Sorted(ids)) : Sorted(ids)[i] \in Nat /\ Sorted(ids)[i] < PartNumOf[t[1]][t[2]]
         /\ Len(Sorted(ids)) \in Nat
         /\ ids # {} => /\ Len(Sorted(ids)) > 0 /\ Sorted(ids) # <<>>
                        /\ Sorted(ids)[1] \in Nat /\ Sorted(ids)[1] < PartNumOf[t[1]][t[2]]
<1>1. PartNumOf[t[1]][t[2]] \in Nat
  BY TaskFits
<1>2. IsFiniteSet(PartIds(t)) /\ \A id \in PartIds(t) : id \in Nat /\ id < PartNumOf[t[1]][t[2]]
  <2>1. PartIds(t) = 0 .. PartNumOf[t[1]][t[2]] - 1 /\ 0 \in Int /\ PartNumOf[t[1]][t[2]] - 1 \in Int
    BY <1>1 DEF PartIds
  <2>2. IsFiniteSet(PartIds(t))
    BY <2>1, FS_Interval
  <2>. QED
    BY <1>1, <2>1, <2>2
<1>3. IsFiniteSet(ids) /\ ids \in SUBSET Nat
  BY <1>2, FS_Subset
<1>4. /\ Sorted(ids) \in Seq(Nat) /\ ToSet(Sorted(ids)) = ids
      /\ \A i \in 1 .. Len(Sorted(ids)) : Sorted(ids)[i] \in ids
      /\ ids # {} => Len(Sorted(ids)) > 0 /\ Sorted(ids) # <<>>
  BY <1>3, SortedElements
<1>5. Len(Sorted(ids)) \in Nat
  BY <1>4, LenProperties
<1>6. \A i \in 1 .. Len(Sorted(ids)) : Sorted(ids)[i] \in Nat /\ Sorted(ids)[i] < PartNumOf[t[1]][t[2]]
  BY <1>2, <1>4
<1>. QED
  BY <1>4, <1>5, <1>6

(* What a status that there is says.                                       *)
LEMMA StatusKnown ==
  ASSUME TypeOK, Fresh, Status # NoStatus
  PROVE  Status \in SUBSET PartIds(ReceiverTask) /\ missing \subseteq Status /\ Status = published
BY DEF TypeOK, Fresh, Status

LEMMA CurrentList ==
  ASSUME TypeOK
  PROVE  /\ m_undone_part_ids \in Seq(Nat) /\ Len(m_undone_part_ids) \in Nat
         /\ \A i \in 1 .. Len(m_undone_part_ids) : m_undone_part_ids[i] \in Nat
         /\ m_undone_part_ids # <<>> => Len(m_undone_part_ids) > 0
<1>1. m_undone_part_ids \in Seq(Nat)
  BY DEF TypeOK
<1>. QED
  BY <1>1, LenProperties, ElementOfSeq, EmptySeq

-----------------------------------------------------------------------------
(* The initial states, and the steps that leave list and position alone.   *)
LEMMA Initially == Init => IInv
<1> SUFFICES ASSUME Init
             PROVE  IInv
  OBVIOUS
<1>1. <<>> \in Seq(Nat) /\ Len(<<>>) = 0
  BY EmptySeq
<1>2. ReceiverTask \in Tasks /\ SpinDefault \in Nat /\ NoPart \notin PartIds(ReceiverTask)
  BY DisplayQtAssumption, TaskFits DEF PartIds, NoPart
<1>3. TypeOK
  <2>1. {attended, visible, existing, server, autoUpdate, up} \subseteq BOOLEAN
    BY DEF Init
  <2>2. spin.value \in 0 .. spin.max
    BY <1>2 DEF Init
  <2>3. /\ state \in {"CONFIG", "CALIBRATE", "DISPLAY"} \cup Failures
        /\ tab \in tabs /\ tabs \subseteq {"calibration", "task"}
        /\ target \in Files \cup {NoFile} /\ config \in Configs
        /\ m_display_mode \in {"MANUAL", "AUTO"}
    BY DEF Init
  <2>4. /\ m_part_num \in Nat /\ m_undone_part_ids \in Seq(Nat)
        /\ m_cur_undone_part_id_index \in Nat /\ m_cur_part_id \in Nat
        /\ shown \in Nat \cup {NoPart} /\ listed \in Tasks
        /\ missing \subseteq PartIds(ReceiverTask)
        /\ unsaved \subseteq PartIds(ReceiverTask) /\ outdated \subseteq PartIds(ReceiverTask)
        /\ published \in {NoStatus} \cup SUBSET PartIds(ReceiverTask)
        /\ restarts \in 0 .. MaxRestarts
    BY <1>1, <1>2, DisplayQtAssumption DEF Init
  <2>. QED
    BY <2>1, <2>2, <2>3, <2>4 DEF TypeOK
<1>4. spin \in Spins
  BY <1>2 DEF Init, Spins
<1>. QED
  BY <1>3, <1>4 DEF Init, IInv, PagesFit, ListFits, Fresh, Told, OfReceiver, Shown, NothingSkipped, FailuresExplained

LEMMA QuietStep ==
  ASSUME IInv,
         \/ \E t \in {"calibration", "task"} : SelectTab(t)
         \/ \E f \in Files : OpenTargetFile(f)
         \/ ToggleTaskMode \/ (\E c \in Configs : SetConfig(c)) \/ SetServer
         \/ ToggleCalibrationStartStop \/ ToggleFullScreen
         \/ StopTask \/ ToggleDisplayMode
         \/ UNCHANGED <<state, pages, setup, list, position, m_display_mode, receiver>>,
         attended' \in BOOLEAN
  PROVE  IInv'
<1> USE DEF pages, setup, list, position, receiver, Configuring, Failures,
            IInv, TypeOK, PagesFit, ListFits, Fresh, Told, OfReceiver, Unkept, Shown, NothingSkipped, FailuresExplained
<1>1. ASSUME NEW t \in {"calibration", "task"}, SelectTab(t)
      PROVE  IInv'
  BY <1>1 DEF SelectTab
<1>2. ASSUME NEW f \in Files, OpenTargetFile(f)
      PROVE  IInv'
  BY <1>2 DEF OpenTargetFile
<1>3. CASE ToggleTaskMode
  <2>1. existing' \in BOOLEAN
    BY <1>3 DEF ToggleTaskMode
  <2>. QED
    BY <1>3, <2>1 DEF ToggleTaskMode
<1>4. ASSUME NEW c \in Configs, SetConfig(c)
      PROVE  IInv'
  BY <1>4 DEF SetConfig
<1>5. CASE SetServer
  <2>1. server' \in BOOLEAN /\ autoUpdate' \in BOOLEAN
    BY <1>5 DEF SetServer
  <2>. QED
    BY <1>5, <2>1 DEF SetServer
<1>6. CASE ToggleCalibrationStartStop
  BY <1>6 DEF ToggleCalibrationStartStop
<1>7. CASE ToggleFullScreen
  <2>1. visible' \in BOOLEAN
    BY <1>7 DEF ToggleFullScreen
  <2>. QED
    BY <1>7, <2>1 DEF ToggleFullScreen
<1>8. CASE StopTask
  BY <1>8 DEF StopTask
<1>9. CASE ToggleDisplayMode
  BY <1>9 DEF ToggleDisplayMode
<1>10. CASE UNCHANGED <<state, pages, setup, list, position, m_display_mode, receiver>>
  BY <1>10
<1>. QED
  BY <1>1, <1>2, <1>3, <1>4, <1>5, <1>6, <1>7, <1>8, <1>9, <1>10

LEMMA ReceiverStep ==
  ASSUME IInv, Receiver, attended' \in BOOLEAN
  PROVE  IInv'
<1> USE DEF pages, setup, list, position, receiver, Failures,
            IInv, TypeOK, PagesFit, ListFits, Fresh, Told, OfReceiver, Unkept, Shown, NothingSkipped, FailuresExplained
<1>1. ASSUME NEW p \in PartIds(ReceiverTask), Receive(p)
      PROVE  IInv'
  <2>1. TypeOK'
    BY <1>1 DEF Receive
  <2>2. Told'
    BY <1>1 DEF Receive
  <2>. QED
    BY <1>1, <2>1, <2>2 DEF Receive
<1>2. CASE Publish
  <2>1. Unkept' = unsaved \ missing
    BY <1>2 DEF Publish, NoStatus, NoPart, PartIds
  <2>. QED
    BY <1>2, <2>1 DEF Publish
<1>3. CASE Flush
  BY <1>3 DEF Flush
<1>4. CASE ServerStops
  <2>1. up' \in BOOLEAN
    BY <1>4 DEF ServerStops
  <2>. QED
    BY <1>4, <2>1 DEF ServerStops
<1>5. CASE Restart
  <2>1. restarts' \in 0 .. MaxRestarts
    BY <1>5, DisplayQtAssumption DEF Restart
  <2>2. TypeOK'
    BY <1>5, <2>1 DEF Restart
  <2>3. Told' /\ NothingSkipped'
    BY <1>5 DEF Restart
  <2>. QED
    BY <1>5, <2>2, <2>3 DEF Restart
<1>. QED
  BY <1>1, <1>2, <1>3, <1>4, <1>5 DEF Receiver

-----------------------------------------------------------------------------
(* The steps that move through the parts.                                  *)
LEMMA PositionFits ==
  ASSUME IInv, NEW cur \in Nat
  PROVE  Position(cur) \in Positions /\ Position(cur) = [spin |-> spin, cur |-> cur, shown |-> shown]
BY DEF IInv, TypeOK, Position, Positions

(* While a task is shown, every move keeps the box, the part and the       *)
(* canvas together.                                                        *)
LEMMA MoveFits ==
  ASSUME IInv, state = "DISPLAY", NEW cur \in Nat, NEW part \in Nat,
         cur = m_cur_part_id \/ (cur = part /\ part < m_part_num),
         MoveTo(SetValue(Position(cur), part))
  PROVE  /\ spin' \in Spins /\ m_cur_part_id' \in Nat /\ shown' \in Nat \cup {NoPart}
         /\ spin' = [value |-> m_cur_part_id', max |-> m_part_num - 1]
         /\ shown' = m_cur_part_id'
<1> DEFINE r == SetValue(Position(cur), part)
<1>1. /\ spin = [value |-> m_cur_part_id, max |-> m_part_num - 1] /\ shown = m_cur_part_id
      /\ m_part_num \in Nat /\ m_cur_part_id \in Nat
  BY DEF IInv, TypeOK, Shown
<1>2. /\ r \in Positions /\ r.spin.max = spin.max
      /\ spin.value = cur => r.spin.value = r.cur /\ r.shown = r.cur
      /\ cur = part /\ part <= spin.max => r.spin.value = part /\ r.cur = part
  <2> DEFINE pos == Position(cur)
  <2>1. pos \in Positions /\ pos.spin = spin /\ pos.cur = cur /\ pos.shown = shown
    BY PositionFits
  <2> HIDE DEF pos
  <2>2. /\ SetValue(pos, part) \in Positions /\ SetValue(pos, part).spin.max = pos.spin.max
        /\ pos.spin.value = pos.cur /\ pos.shown = pos.cur =>
             SetValue(pos, part).spin.value = SetValue(pos, part).cur
             /\ SetValue(pos, part).shown = SetValue(pos, part).cur
        /\ pos.cur = part /\ part <= pos.spin.max =>
             SetValue(pos, part).spin.value = part /\ SetValue(pos, part).cur = part
    BY <2>1, SetValueFits
  <2>3. SetValue(pos, part) = r
    BY DEF pos
  <2>. QED
    BY <1>1, <2>1, <2>2, <2>3
<1>3. spin' = r.spin /\ m_cur_part_id' = r.cur /\ shown' = r.shown
  BY DEF MoveTo
<1>4. r.spin.value = r.cur /\ r.shown = r.cur
  <2>1. CASE cur = m_cur_part_id
    BY <1>1, <1>2, <2>1
  <2>2. CASE cur = part /\ part < m_part_num /\ cur # m_cur_part_id
    <3>1. part <= spin.max /\ part # spin.value
      BY <1>1, <2>2
    <3>2. r.shown = part
      BY <1>1, <2>2, <3>1, PositionFits DEF SetValue
    <3>. QED
      BY <1>2, <2>2, <3>1, <3>2
  <2>. QED
    BY <2>1, <2>2
<1> HIDE DEF r
<1>5. r.spin \in [value : Nat, max : Nat] /\ r.spin \in Spins /\ r.cur \in Nat /\ r.shown \in Nat \cup {NoPart}
  BY <1>2 DEF Positions, Spins
<1>6. r.spin = [value |-> r.cur, max |-> m_part_num - 1]
  BY <1>1, <1>2, <1>4, <1>5
<1>. QED
  BY <1>3, <1>4, <1>5, <1>6

LEMMA GoToStep ==
  ASSUME IInv, state = "DISPLAY", attended' \in BOOLEAN,
         NEW i \in Nat, NEW part \in Nat, GoTo(i, part),
         m_undone_part_ids # <<>> => i < Len(m_undone_part_ids)
  PROVE  IInv'
<1>1. /\ spin' \in Spins /\ m_cur_part_id' \in Nat /\ shown' \in Nat \cup {NoPart}
      /\ spin' = [value |-> m_cur_part_id', max |-> m_part_num - 1]
      /\ shown' = m_cur_part_id'
  <2>1. m_cur_part_id \in Nat /\ MoveTo(SetValue(Position(m_cur_part_id), part))
    BY DEF IInv, TypeOK, GoTo
  <2>. QED
    BY <2>1, MoveFits
<1>2. /\ UNCHANGED <<state, pages, setup, m_part_num, m_undone_part_ids, listed, outdated, m_display_mode, receiver>>
      /\ m_cur_undone_part_id_index' = i
  BY DEF GoTo
<1> HIDE DEF GoTo
<1>3. spin'.value \in 0 .. spin'.max
  BY <1>1 DEF Spins
<1>4. TypeOK'
  BY <1>1, <1>2, <1>3 DEF IInv, TypeOK, pages, setup, receiver
<1>. QED
  BY <1>1, <1>2, <1>4 DEF IInv, pages, setup, receiver, PagesFit, ListFits, Fresh, Shown,
    Told, OfReceiver, Unkept, NothingSkipped, FailuresExplained

LEMMA SpinStep ==
  ASSUME IInv, attended' \in BOOLEAN, NEW p \in 0 .. spin.max, SpinTo(p)
  PROVE  IInv'
<1>1. state = "DISPLAY" /\ p \in Nat /\ m_cur_part_id \in Nat
  BY DEF SpinTo, IInv, TypeOK
<1>2. GoTo(m_cur_undone_part_id_index, p)
  BY DEF SpinTo, GoTo, list
<1>3. m_cur_undone_part_id_index \in Nat
      /\ (m_undone_part_ids # <<>> => m_cur_undone_part_id_index < Len(m_undone_part_ids))
  BY <1>1 DEF IInv, TypeOK, Shown
<1>. QED
  BY <1>1, <1>2, <1>3, GoToStep

LEMMA PlaceStep ==
  ASSUME IInv, attended' \in BOOLEAN, state = "DISPLAY",
         NEW i \in 0 .. Length - 1, GoToPlace(i)
  PROVE  IInv'
<1>1. m_part_num \in Nat /\ m_cur_undone_part_id_index \in Nat
      /\ (m_undone_part_ids # <<>> => m_cur_undone_part_id_index < Len(m_undone_part_ids))
  BY DEF IInv, TypeOK, Shown
<1>2. CASE m_undone_part_ids # <<>>
  <2>1. i \in Nat /\ i < Len(m_undone_part_ids) /\ m_undone_part_ids[i + 1] \in Nat
    BY <1>2, CurrentList DEF Length, IInv
  <2>. QED
    BY <1>2, <2>1, GoToStep DEF GoToPlace
<1>3. CASE m_undone_part_ids = <<>>
  <2>1. i \in Nat
    BY <1>1
  <2>. QED
    BY <1>1, <1>3, <2>1, GoToStep DEF GoToPlace
<1>. QED
  BY <1>2, <1>3

(* A program that fails keeps everything but its state.                    *)
LEMMA FailStep ==
  ASSUME IInv, attended' \in BOOLEAN, NEW why \in Failures \ {"BAD_STATE"}, Fail(why),
         why = "BAD_LIST" => listed # <<target, config>>,
         why = "BAD_STATUS" => published = {} \/ ReceiverTask # <<target, config>>
  PROVE  IInv'
<1>1. state' = why /\ UNCHANGED <<pages, setup, list, position, m_display_mode, receiver>>
  BY DEF Fail
<1>. QED
  BY <1>1 DEF pages, setup, list, position, receiver, Failures,
    IInv, TypeOK, PagesFit, ListFits, Fresh, Told, OfReceiver, Unkept, Shown, NothingSkipped, FailuresExplained

LEMMA TakeStatusStep ==
  ASSUME IInv, attended' \in BOOLEAN, state = "DISPLAY", Status # NoStatus, TakeStatus
  PROVE  IInv'
<1>1. /\ Status \in SUBSET PartIds(ReceiverTask) /\ missing \subseteq Status /\ Status = published
      /\ ReceiverTask \in Tasks
  BY StatusKnown, DisplayQtAssumption DEF IInv
<1>2. m_part_num = PartNumOf[target][config]
  BY DEF IInv, Shown
<1>3. CASE ~StatusFits(m_part_num) \/ Status = {}
  <2>1. Fail("BAD_STATUS")
    BY <1>3 DEF TakeStatus
  <2>2. ReceiverTask = <<target, config>> => StatusFits(m_part_num)
    BY <1>2 DEF StatusFits
  <2>. QED
    BY <1>1, <1>3, <2>1, <2>2, FailStep DEF Failures
<1>4. CASE StatusFits(m_part_num) /\ Status # {}
  <2> DEFINE ids == Sorted(Status)
  <2>1. /\ ids \in Seq(Nat) /\ ToSet(ids) = Status /\ Len(ids) > 0
        /\ \A i \in 1 .. Len(ids) : ids[i] \in Nat /\ ids[i] < m_part_num
        /\ ids[1] \in Nat /\ ids[1] < m_part_num
        /\ m_part_num = PartNumOf[ReceiverTask[1]][ReceiverTask[2]]
    BY <1>1, <1>4, ListOfPart DEF StatusFits
  <2>2. /\ m_undone_part_ids' = ids /\ listed' = ReceiverTask /\ outdated' = {}
        /\ m_cur_undone_part_id_index' = 0
        /\ MoveTo(SetValue(Position(ids[1]), ids[1]))
        /\ UNCHANGED <<state, pages, setup, m_part_num, m_display_mode, receiver>>
    BY <1>4 DEF TakeStatus
  <2> HIDE DEF ids
  <2>3. /\ spin' \in Spins /\ m_cur_part_id' \in Nat /\ shown' \in Nat \cup {NoPart}
        /\ spin' = [value |-> m_cur_part_id', max |-> m_part_num - 1]
        /\ shown' = m_cur_part_id'
    BY <2>1, <2>2, MoveFits
  <2>4. spin'.value \in 0 .. spin'.max
    BY <2>3 DEF Spins
  <2>5. TypeOK'
    BY <1>1, <2>1, <2>2, <2>3, <2>4 DEF IInv, TypeOK, pages, setup, receiver
  <2>6. Shown'
    <3>1. DOMAIN ids = 1 .. Len(ids)
      BY <2>1, LenProperties
    <3>. QED
      BY <1>2, <2>1, <2>2, <2>3, <3>1 DEF Shown, setup
  <2>7. ListFits' /\ NothingSkipped' /\ Told'
    BY <1>1, <2>1, <2>2 DEF ListFits, NothingSkipped, Told, OfReceiver, Unkept, receiver
  <2>. QED
    BY <2>2, <2>3, <2>5, <2>6, <2>7 DEF IInv, pages, setup, receiver, PagesFit, Fresh, FailuresExplained
<1>. QED
  BY <1>3, <1>4

LEMMA OpenTaskFileStep ==
  ASSUME IInv, attended' \in BOOLEAN, NEW t \in Tasks, NEW undone \in SUBSET PartIds(t),
         OpenTaskFile(t, undone)
  PROVE  IInv'
<1>1. CASE undone = {}
  <2>1. Fail("BAD_FILE")
    BY <1>1 DEF OpenTaskFile
  <2>. QED
    BY <2>1, FailStep DEF Failures
<1>2. CASE undone # {}
  <2> DEFINE ids == Sorted(undone)
  <2>1. /\ ids \in Seq(Nat) /\ ToSet(ids) = undone
        /\ \A i \in 1 .. Len(ids) : ids[i] \in Nat /\ ids[i] < PartNumOf[t[1]][t[2]]
        /\ t[2] \in Configs /\ PartNumOf[t[1]][t[2]] \in Nat
    BY ListOfPart, TaskFits
  <2>2. /\ state = "CONFIG" /\ config' = t[2] /\ m_part_num' = PartNumOf[t[1]][t[2]]
        /\ m_undone_part_ids' = ids /\ listed' = t /\ outdated' = {}
        /\ t = ReceiverTask => missing \cup unsaved \subseteq undone
        /\ UNCHANGED <<state, pages, existing, server, autoUpdate, target, m_cur_undone_part_id_index,
                       position, m_display_mode, receiver>>
    BY <1>2 DEF OpenTaskFile, Configuring
  <2> HIDE DEF ids
  <2>3. TypeOK'
    BY <2>1, <2>2 DEF IInv, TypeOK, pages, position, receiver
  <2>4. ListFits' /\ NothingSkipped' /\ Told'
    BY <2>1, <2>2 DEF ListFits, NothingSkipped, Told, OfReceiver, Unkept, receiver
  <2>. QED
    BY <2>2, <2>3, <2>4
    DEF IInv, pages, position, receiver, PagesFit, Fresh, Shown, FailuresExplained
<1>. QED
  BY <1>1, <1>2

(* Something is shown, so there is a place to go to.                       *)
LEMMA SomePlace ==
  ASSUME IInv, state = "DISPLAY"
  PROVE  Length \in Nat /\ At \in 0 .. Length - 1
<1>1. /\ m_part_num \in Nat /\ m_cur_part_id \in Nat /\ m_cur_undone_part_id_index \in Nat
      /\ spin \in Spins /\ spin = [value |-> m_cur_part_id, max |-> m_part_num - 1]
      /\ m_undone_part_ids # <<>> => m_cur_undone_part_id_index < Len(m_undone_part_ids)
  BY DEF IInv, TypeOK, Shown
<1>2. m_cur_part_id <= m_part_num - 1
  <2>1. spin.value <= spin.max
    BY <1>1 DEF Spins
  <2>. QED
    BY <1>1, <2>1
<1>3. Len(m_undone_part_ids) \in Nat
  BY CurrentList DEF IInv
<1>. QED
  BY <1>1, <1>2, <1>3 DEF Length, At

LEMMA NavigateStep ==
  ASSUME IInv, attended' \in BOOLEAN,
         NavigateNextPart \/ NavigatePrevPart \/ UpdateTaskStatus
  PROVE  IInv'
<1>1. CASE NavigateNextPart
  <2>1. state = "DISPLAY"
    BY <1>1 DEF NavigateNextPart
  <2> DEFINE next == IF At < Length - 1 THEN At + 1 ELSE 0
  <2>2. next \in 0 .. Length - 1
    BY <2>1, SomePlace
  <2>3. (Status # NoStatus /\ TakeStatus) \/ GoToPlace(next)
    BY <1>1 DEF NavigateNextPart, CanUpdate
  <2> HIDE DEF next
  <2>. QED
    BY <2>1, <2>2, <2>3, PlaceStep, TakeStatusStep
<1>2. CASE NavigatePrevPart
  <2>1. state = "DISPLAY"
    BY <1>2 DEF NavigatePrevPart
  <2> DEFINE prev == IF At > 0 THEN At - 1 ELSE Length - 1
  <2>2. prev \in 0 .. Length - 1
    BY <2>1, SomePlace
  <2>3. GoToPlace(prev)
    BY <1>2 DEF NavigatePrevPart
  <2> HIDE DEF prev
  <2>. QED
    BY <2>1, <2>2, <2>3, PlaceStep
<1>3. CASE UpdateTaskStatus
  BY <1>3, TakeStatusStep DEF UpdateTaskStatus
<1>. QED
  BY <1>1, <1>2, <1>3

(* The part a task starts with is cut by the old range of the spin box,    *)
(* then by the new one, and the box is set to what is left.                *)
LEMMA StartFits ==
  ASSUME NEW pos \in Positions, NEW num \in Nat, num > 0, pos.cur < num
  PROVE  LET ranged == SetMaximum(pos, num - 1)
             final == SetValue(ranged, ranged.cur)
         IN  /\ final \in Positions /\ final.cur \in Nat
             /\ final.spin = [value |-> final.cur, max |-> num - 1] /\ final.cur <= num - 1
<1> DEFINE ranged == SetMaximum(pos, num - 1)
           final == SetValue(ranged, ranged.cur)
<1>1. pos.cur \in Nat /\ num - 1 \in Nat /\ pos.cur <= num - 1
  BY DEF Positions
<1>2. ranged \in Positions /\ ranged.spin.max = num - 1 /\ ranged.cur <= num - 1
  BY <1>1, SetMaximumFits
<1> HIDE DEF ranged
<1>3. ranged.cur \in Nat
  BY <1>2 DEF Positions
<1>4. /\ final \in Positions /\ final.spin.max = ranged.spin.max
      /\ ranged.cur = ranged.cur /\ ranged.cur <= ranged.spin.max =>
           final.spin.value = ranged.cur /\ final.cur = ranged.cur
  BY <1>2, <1>3, SetValueFits
<1> HIDE DEF final
<1>5. final.spin \in [value : Nat, max : Nat]
  BY <1>4 DEF Positions, Spins
<1>6. final.spin = [value |-> final.cur, max |-> num - 1]
  BY <1>2, <1>4, <1>5
<1>7. final \in Positions /\ final.cur \in Nat /\ final.cur <= num - 1
  BY <1>2, <1>3, <1>4
<1>. QED
  BY <1>6, <1>7 DEF final, ranged

LEMMA StartTaskStep ==
  ASSUME IInv, attended' \in BOOLEAN, StartTask
  PROVE  IInv'
<1>0. PICK fetches \in {FALSE, server /\ autoUpdate /\ Status # NoStatus} : StartWith(fetches)
  BY DEF StartTask
<1> DEFINE num == PartNumOf[target][config]
           hasList == m_undone_part_ids # <<>>
           first == Position(IF hasList THEN m_undone_part_ids[1] ELSE 0)
           ids == Sorted(Status)
           asked == IF fetches THEN SetValue([first EXCEPT !.cur = ids[1]], ids[1]) ELSE first
           ranged == SetMaximum(asked, num - 1)
           final == SetValue(ranged, ranged.cur)
<1>1. /\ target \in Files /\ config \in Configs /\ num \in Nat /\ num > 0
      /\ state = "CONFIG" /\ tab = "task" /\ ReceiverTask \in Tasks
  BY <1>0, DisplayQtAssumption DEF StartWith, IInv, TypeOK
<1>2. CASE hasList /\ num # m_part_num
  <2>1. Fail("BAD_LIST")
    BY <1>0, <1>2 DEF StartWith
  <2>2. listed # <<target, config>>
    BY <1>2 DEF IInv, ListFits
  <2>. QED
    BY <2>1, <2>2, FailStep DEF Failures
<1>3. CASE ~(hasList /\ num # m_part_num) /\ fetches /\ (~StatusFits(num) \/ Status = {})
  <2>1. Fail("BAD_STATUS")
    BY <1>0, <1>3 DEF StartWith
  <2>2. ReceiverTask = <<target, config>> => StatusFits(num)
    BY DEF StatusFits
  <2>3. Status = published
    BY <1>0, <1>3, StatusKnown DEF IInv
  <2>. QED
    BY <1>3, <2>1, <2>2, <2>3, FailStep DEF Failures
<1>4. CASE ~(hasList /\ num # m_part_num) /\ ~(fetches /\ (~StatusFits(num) \/ Status = {}))
  <2>1. /\ state' = "DISPLAY" /\ tabs' = {"task"}
        /\ m_part_num' = num
        /\ m_undone_part_ids' = IF fetches THEN ids ELSE m_undone_part_ids
        /\ listed' = IF fetches THEN ReceiverTask ELSE listed
        /\ outdated' = IF fetches THEN {} ELSE outdated
        /\ m_cur_undone_part_id_index' = IF hasList \/ fetches THEN 0 ELSE m_cur_undone_part_id_index
        /\ MoveTo([final EXCEPT !.shown = final.cur])
        /\ UNCHANGED <<tab, visible, setup, m_display_mode, receiver>>
    BY <1>0, <1>4 DEF StartWith
  <2>2. fetches =>
          /\ ids \in Seq(Nat) /\ ToSet(ids) = Status /\ Len(ids) > 0 /\ ids # <<>>
          /\ \A i \in 1 .. Len(ids) : ids[i] \in Nat /\ ids[i] < num
          /\ ids[1] \in Nat /\ ids[1] < num
          /\ num = PartNumOf[ReceiverTask[1]][ReceiverTask[2]]
          /\ missing \subseteq Status /\ Status = published /\ published # NoStatus
    <3>1. fetches => /\ Status \in SUBSET PartIds(ReceiverTask) /\ missing \subseteq Status
                     /\ Status = published /\ published # NoStatus
                     /\ StatusFits(num) /\ Status # {}
      BY <1>0, <1>4, StatusKnown DEF IInv
    <3>. QED
      BY <1>1, <3>1, ListOfPart DEF StatusFits
  <2>3. hasList => /\ num = m_part_num /\ Len(m_undone_part_ids) > 0
                   /\ m_undone_part_ids[1] \in Nat /\ m_undone_part_ids[1] < num
                   /\ \A i \in 1 .. Len(m_undone_part_ids) : m_undone_part_ids[i] \in Nat /\ m_undone_part_ids[i] < num
    <3>1. hasList => num = m_part_num
      BY <1>4
    <3>. QED
      BY <3>1, CurrentList DEF IInv, ListFits
  <2> DEFINE start == IF hasList THEN m_undone_part_ids[1] ELSE 0
  <2>4. /\ start \in Nat /\ start < num
        /\ first \in Positions /\ first = [spin |-> spin, cur |-> start, shown |-> shown]
    BY <1>1, <2>3, PositionFits
  <2>5. asked \in Positions /\ asked.cur < num
    <3>1. CASE ~fetches
      BY <2>4, <3>1
    <3>2. CASE fetches
      <4> DEFINE pos == [first EXCEPT !.cur = ids[1]]
      <4>1. pos = [spin |-> spin, cur |-> ids[1], shown |-> shown]
        BY <2>4
      <4>2. pos \in Positions /\ pos.cur = ids[1]
        <5>1. spin \in Spins /\ shown \in Nat \cup {NoPart}
          BY DEF IInv, TypeOK
        <5>. QED
          BY <2>2, <3>2, <4>1, <5>1 DEF Positions
      <4>3. asked = SetValue(pos, ids[1])
        BY <3>2
      <4> HIDE DEF pos, ids, asked
      <4>4. SetValue(pos, ids[1]) \in Positions /\ (SetValue(pos, ids[1]).cur = pos.cur \/ SetValue(pos, ids[1]).cur <= ids[1])
        BY <2>2, <3>2, <4>2, SetValueFits
      <4>5. asked.cur \in Nat
        BY <4>3, <4>4 DEF Positions
      <4>. QED
        BY <1>1, <2>2, <3>2, <4>2, <4>3, <4>4, <4>5
    <3>. QED
      BY <3>1, <3>2
  <2> HIDE DEF asked
  <2>6. /\ final \in Positions /\ final.cur \in Nat
        /\ final.spin = [value |-> final.cur, max |-> num - 1] /\ final.cur <= num - 1
    BY <1>1, <2>5, StartFits
  <2> HIDE DEF final
  <2>7. /\ m_cur_part_id' = final.cur /\ m_cur_part_id' \in Nat
        /\ spin' = [value |-> m_cur_part_id', max |-> num - 1] /\ spin' \in Spins
        /\ shown' = m_cur_part_id' /\ spin'.value \in 0 .. spin'.max
    <3>1. spin' = final.spin /\ m_cur_part_id' = final.cur /\ shown' = final.cur
      BY <2>1, <2>6 DEF MoveTo, Positions
    <3>2. final.spin \in Spins
      BY <2>6 DEF Positions
    <3>3. final.cur \in 0 .. num - 1
      BY <1>1, <2>6
    <3>. QED
      BY <2>6, <3>1, <3>2, <3>3
  <2> DEFINE after == IF fetches THEN ids ELSE m_undone_part_ids
  <2>8. /\ after \in Seq(Nat) /\ \A i \in 1 .. Len(after) : after[i] < num
        /\ after # <<>> => Len(after) > 0 /\ m_cur_undone_part_id_index' = 0
    <3>1. CASE fetches
      BY <2>1, <2>2, <3>1
    <3>2. CASE ~fetches
      BY <2>1, <2>3, <3>2, CurrentList DEF IInv
    <3>. QED
      BY <3>1, <3>2
  <2>9. m_undone_part_ids' = after /\ m_cur_undone_part_id_index' \in Nat /\ listed' \in Tasks
    BY <1>1, <2>1 DEF IInv, TypeOK
  <2>10. after # <<>> => num = PartNumOf[listed'[1]][listed'[2]]
    <3>1. CASE fetches
      BY <2>1, <2>2, <3>1
    <3>2. CASE ~fetches
      BY <2>1, <2>3, <3>2 DEF IInv, ListFits
    <3>. QED
      BY <3>1, <3>2
  <2>11. NothingSkipped' /\ Told'
    <3>1. CASE fetches
      BY <2>1, <2>2, <3>1 DEF NothingSkipped, Told, OfReceiver, Unkept, receiver
    <3>2. CASE ~fetches
      BY <2>1, <3>2 DEF IInv, NothingSkipped, Told, OfReceiver, Unkept, receiver
    <3>. QED
      BY <3>1, <3>2
  <2>12. /\ state' = "DISPLAY" /\ tabs' = {"task"} /\ m_part_num' = num /\ num = PartNumOf[target'][config']
         /\ UNCHANGED <<tab, visible, existing, server, autoUpdate, target, config, m_display_mode,
                       up, missing, unsaved, published, restarts>>
         /\ outdated' \subseteq PartIds(ReceiverTask)
    BY <2>1 DEF setup, receiver, IInv, TypeOK
  <2> HIDE DEF after, ids, num
  <2>13. TypeOK'
    BY <1>1, <2>7, <2>8, <2>9, <2>12 DEF IInv, TypeOK
  <2>14. Shown'
    <3>1. DOMAIN after = 1 .. Len(after)
      BY <2>8, LenProperties
    <3>. QED
      BY <2>7, <2>8, <2>9, <2>12, <3>1 DEF Shown
  <2>15. ListFits'
    BY <2>8, <2>9, <2>10, <2>12 DEF ListFits
  <2>. QED
    BY <2>7, <2>11, <2>12, <2>13, <2>14, <2>15 DEF IInv, PagesFit, Fresh, FailuresExplained
<1>. QED
  BY <1>2, <1>3, <1>4

-----------------------------------------------------------------------------
LEMMA Inductive == IInv /\ [Next]_vars => IInv'
<1> SUFFICES ASSUME IInv, [Next]_vars
             PROVE  IInv'
  OBVIOUS
<1>1. attended' \in BOOLEAN
  <2>1. attended \in BOOLEAN
    BY DEF IInv, TypeOK
  <2>2. attended' = attended \/ attended' = FALSE
    BY DEF Next, LetRun, vars
  <2>. QED
    BY <2>1, <2>2
<1>2. ASSUME User
      PROVE  IInv'
  <2>1. ASSUME NEW t \in Tasks, NEW undone \in SUBSET PartIds(t), OpenTaskFile(t, undone)
        PROVE  IInv'
    BY <1>1, <2>1, OpenTaskFileStep
  <2>2. ASSUME NEW p \in 0 .. spin.max, SpinTo(p)
        PROVE  IInv'
    BY <1>1, <2>2, SpinStep
  <2>3. CASE StartTask
    BY <1>1, <2>3, StartTaskStep
  <2>4. CASE UpdateTaskStatus \/ NavigatePrevPart \/ NavigateNextPart
    BY <1>1, <2>4, NavigateStep
  <2>5. CASE \/ \E t \in {"calibration", "task"} : SelectTab(t)
             \/ \E f \in Files : OpenTargetFile(f)
             \/ ToggleTaskMode \/ (\E c \in Configs : SetConfig(c)) \/ SetServer
             \/ ToggleCalibrationStartStop \/ ToggleFullScreen
             \/ StopTask \/ ToggleDisplayMode
    BY <1>1, <2>5, QuietStep
  <2>. QED
    BY <1>2, <2>1, <2>2, <2>3, <2>4, <2>5 DEF User
<1>3. CASE Timeout
  BY <1>1, <1>3, NavigateStep DEF Timeout
<1>4. CASE Receiver
  BY <1>1, <1>4, ReceiverStep
<1>5. CASE LetRun
  BY <1>1, <1>5, QuietStep DEF LetRun
<1>6. CASE UNCHANGED vars
  BY <1>1, <1>6, QuietStep DEF vars
<1>. QED
  BY <1>2, <1>3, <1>4, <1>5, <1>6 DEF Next

LEMMA Invariant == Spec => []IInv
BY Initially, Inductive, PTL DEF Spec

(* The state of the sender keeps its types, whatever the user presses and  *)
(* the receiver answers: the spin box is a value up to its maximum, and a  *)
(* list is of part numbers.                                                *)
THEOREM TypeCorrect == Spec => []TypeOK
<1>1. IInv => TypeOK
  BY DEF IInv
<1>. QED
  BY <1>1, Invariant, PTL

(* While a task is shown, the list, the spin box, the current part and the *)
(* canvas agree, and Draw reads parts of the target file only.             *)
THEOREM ShownCorrect == Spec => []Shown
<1>1. IInv => Shown
  BY DEF IInv
<1>. QED
  BY <1>1, Invariant, PTL

(* A list about the receiver's task, from its task file or from a status   *)
(* however old, has every part the receiver misses, through any number of  *)
(* kills of the receiver, but for those that it had published as done and  *)
(* not flushed when it was killed, since the list was taken.               *)
THEOREM NothingSkippedCorrect == Spec => []NothingSkipped
<1>1. IInv => NothingSkipped
  BY DEF IInv
<1>. QED
  BY <1>1, Invariant, PTL

(* A sender that fails was started with the list of another task, or got   *)
(* the status of another task or one that says everything is done.         *)
THEOREM FailuresExplainedCorrect == Spec => []FailuresExplained
<1>1. IInv => FailuresExplained
  BY DEF IInv
<1>. QED
  BY <1>1, Invariant, PTL
=============================================================================

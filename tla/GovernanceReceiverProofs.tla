---------------------- MODULE GovernanceReceiverProofs ----------------------
(***************************************************************************)
(* Theorems about GovernanceReceiver, for any number of messages, any      *)
(* instructions, delays, windows and caps, and any size of the record.     *)
(***************************************************************************)
EXTENDS GovernanceReceiver, DataFacts, TLAPS

Config ==
  [paused : BOOLEAN, bootstrapping : BOOLEAN, emitter : Emitters,
   delay : Delays, window : Windows]

Funded == [registered : BOOLEAN, perMessageCap : Caps, rollingCap : Caps]

Slot == [time : 0..MaxTime, amount : {0} \cup Amounts]

Outflow == [time : 0..MaxTime, amount : Amounts]

FundsTyped ==
  /\ now \in 0..MaxTime
  /\ config \in Config
  /\ treasury \in Funded
  /\ treasury.perMessageCap <= treasury.rollingCap
  /\ window \in [1..Entries -> Slot]
  /\ ~treasury.registered => window = Empty
  /\ outflows \in Seq(Outflow)
  /\ shortest \in Windows
  /\ shortest <= config.window

(* The outflows later than a moment. *)
Since(flows, moment) == {i \in 1..Len(flows) : flows[i].time > moment}

(* Each of the outflows I has a slot of its own that still holds it. *)
InSlots(I, flows, slots) ==
  \E h \in [I -> 1..Entries] :
    /\ \A x, y \in I : h[x] = h[y] => x = y
    /\ \A x \in I : slots[h[x]] = flows[x]

(* What the record may have dropped is older than any window in force yet. *)
Recorded == InSlots(Since(outflows, now - shortest), outflows, window)

FundsInv == FundsTyped /\ Recorded

Message ==
  [state : {"absent", "pending", "executed", "cancelled"},
   instruction : Carried \cup {NoInstruction}, receivedAt : 0..MaxTime,
   executableAt : Nat]

(* A message waits for a delay, and runs only as it becomes executed. *)
MessageSound(m, runs) ==
  /\ m.state = "absent" => m = Absent
  /\ m.state # "absent" =>
       /\ m.instruction \in Carried
       /\ m.executableAt >= m.receivedAt + Min(Delays)
  /\ m.state \in {"absent", "pending"} => runs = 0

BoxInv ==
  /\ messages \in [Sequences -> Message]
  /\ performed \in [Sequences -> Nat]
  /\ \A seq \in Sequences : MessageSound(messages[seq], performed[seq])

ReceiverInv ==
  /\ FundsInv
  /\ BoxInv
  /\ allowed \subseteq Programs \cup {Self}
  /\ setups \in 0..MaxSetup

-----------------------------------------------------------------------------
(* Constants and instructions. *)

LEMMA ReceiverConstants ==
  /\ Delays \in SUBSET Nat /\ Windows \in SUBSET Nat
  /\ Caps \in SUBSET Nat /\ Amounts \in SUBSET Nat
  /\ 0 \notin Windows /\ 0 \notin Amounts /\ 0 \notin Delays
  /\ Delays # {}
  /\ \A w \in Windows : w \in Nat \ {0}
  /\ \A c \in Caps : c \in Nat
  /\ \A a \in Amounts : a \in Nat \ {0}
  /\ Entries \in Nat \ {0} /\ MaxTime \in Nat /\ MaxSetup \in Nat
BY ReceiverAssumption DEF ReceiverAssumption

LEMMA FundsNumbers ==
  ASSUME FundsTyped
  PROVE  /\ now \in Nat
         /\ shortest \in Nat \ {0}
         /\ config.window \in Nat
         /\ treasury.rollingCap \in Nat
<1>1. /\ now \in 0..MaxTime /\ shortest \in Windows
      /\ config.window \in Windows /\ treasury.rollingCap \in Caps
  BY DEF FundsTyped, Config, Funded
<1>2. now \in Nat
  BY <1>1, ReceiverConstants
<1> QED
  BY ONLY <1>1, <1>2, ReceiverConstants

LEMMA LeastDelay == Min(Delays) \in Nat /\ \A d \in Delays : Min(Delays) <= d
<1>1. ASSUME NEW d \in Delays PROVE Min(Delays) \in Nat /\ Min(Delays) <= d
  BY ReceiverConstants, LowestIsLeast
<1> QED
  BY <1>1, ReceiverConstants

(* What an instruction carries, by its name. *)
LEMMA InstructionKinds ==
  ASSUME NEW i \in Instructions
  PROVE  /\ i.name = "pay" <=> i.target \in Programs
         /\ i.name = "pay" => i.value \in Amounts
         /\ i.name = "set_delay" => i.value \in Delays
         /\ i.name = "set_window" => i.value \in Windows
         /\ i.name = "set_emitter" => i.value \in Emitters
         /\ i.name = "cancel" => i.value \in Sequences
         /\ i.name \in {"allow", "disallow"} =>
              i.value \in Programs \cup {Self}
         /\ i.name \in {"set_caps", "register"} =>
              i.value \in Caps /\ i.rolling \in Caps
         /\ i.target = Self \/ i.target \in Programs
BY ReceiverAssumption DEF Instructions, ReceiverAssumption

-----------------------------------------------------------------------------
(* The record of outflows. *)

LEMMA FewerInSlots ==
  ASSUME NEW I, NEW J \in SUBSET I, NEW flows, NEW slots,
         InSlots(I, flows, slots)
  PROVE  InSlots(J, flows, slots)
<1>1. PICK h \in [I -> 1..Entries] :
        /\ \A x, y \in I : h[x] = h[y] => x = y
        /\ \A x \in I : slots[h[x]] = flows[x]
  BY DEF InSlots
<1> DEFINE g == [x \in J |-> h[x]]
<1>2. /\ g \in [J -> 1..Entries]
      /\ \A x, y \in J : g[x] = g[y] => x = y
      /\ \A x \in J : slots[g[x]] = flows[x]
  BY <1>1
<1> QED
  BY <1>2 DEF InSlots

LEMMA NothingInSlots ==
  ASSUME NEW flows, NEW slots, flows = <<>>, NEW moment
  PROVE  InSlots(Since(flows, moment), flows, slots)
<1>1. Since(flows, moment) = {}
  BY DEF Since
<1> DEFINE g == [x \in {} |-> 1]
<1>2. /\ g \in [{} -> 1..Entries]
      /\ \A x, y \in {} : g[x] = g[y] => x = y
      /\ \A x \in {} : slots[g[x]] = flows[x]
  OBVIOUS
<1> QED
  BY <1>1, <1>2 DEF InSlots

(* The amounts of some outflows or slots. *)
LEMMA AmountsUnfold ==
  ASSUME NEW flows, NEW I, NEW F, IsFiniteSet(I),
         \A i \in I : F[i] = flows[i].amount
  PROVE  MapThenSumSet(LAMBDA i : flows[i].amount, I) = Sum(F, I)
<1>1. \A s \in SUBSET I : s # {} => F[SomeOf(s)] = flows[SomeOf(s)].amount
  BY SomeOfIn
<1> DEFINE Unfolds(g) ==
      g = [s \in SUBSET I |->
             IF s = {} THEN 0
             ELSE flows[SomeOf(s)].amount + g[s \ {SomeOf(s)}]]
<1>2. \A g : Unfolds(g) <=> Adds(g, F, I)
  BY <1>1 DEF Adds
<1>3. MapThenSumSet(LAMBDA i : flows[i].amount, I)
        = (CHOOSE g : Unfolds(g))[I]
  BY DEF MapThenSumSet, MapThenFoldSet, SomeOf
<1> HIDE DEF Unfolds
<1>4. Unfolds(CHOOSE g : Unfolds(g))
  BY <1>2, AddsExists
<1>5. (CHOOSE g : Unfolds(g))[I] = Sum(F, I)
  BY <1>2, <1>4, AddsAgree, AddsExists DEF Sum
<1> QED
  BY <1>3, <1>5
(* The outflows that a payment leaves in the sum of the window.            *)
WithinCap ==
  MapThenSumSet(LAMBDA i : outflows'[i].amount,
                {i \in 1..Len(outflows') :
                   outflows'[i].time > now - shortest})
    <= treasury.rollingCap

LEMMA SlotsFinite == IsFiniteSet(1..Entries)
BY ReceiverConstants, FS_Interval

LEMMA SinceFinite ==
  ASSUME NEW flows \in Seq(Outflow), NEW moment
  PROVE  IsFiniteSet(Since(flows, moment))
<1> DEFINE D == 1..Len(flows)
<1>1. IsFiniteSet(D)
  BY FS_Interval
<1>2. Since(flows, moment) \subseteq D
  BY DEF Since
<1> HIDE DEF D
<1> QED
  BY <1>1, <1>2, FS_Subset

(* The new outflow joins those of the window. *)
LEMMA SinceAppend ==
  ASSUME NEW flows \in Seq(Outflow), NEW new \in Outflow, NEW moment,
         new.time > moment
  PROVE  LET n == Len(flows) + 1
             longer == Append(flows, new)
         IN  /\ longer \in Seq(Outflow)
             /\ Since(longer, moment) = Since(flows, moment) \cup {n}
             /\ n \notin Since(flows, moment)
             /\ longer[n] = new
             /\ \A i \in Since(flows, moment) : longer[i] = flows[i]
<1> DEFINE n == Len(flows) + 1
           longer == Append(flows, new)
<1>1. /\ longer \in Seq(Outflow) /\ Len(longer) = n /\ longer[n] = new
      /\ \A i \in 1..Len(flows) : longer[i] = flows[i]
  OBVIOUS
<1>2. Len(flows) \in Nat
  OBVIOUS
<1> HIDE DEF longer
<1>3. \A i : i \in 1..n <=> i \in 1..Len(flows) \/ i = n
  BY <1>2
<1>4. n \notin 1..Len(flows)
  BY <1>2
<1> HIDE DEF n
<1>5. Since(longer, moment) = Since(flows, moment) \cup {n}
  BY <1>1, <1>3, <1>4 DEF Since
<1>6. n \notin Since(flows, moment)
  BY <1>4 DEF Since
<1>7. \A i \in Since(flows, moment) : longer[i] = flows[i]
  BY <1>1 DEF Since
<1> QED
  BY <1>1, <1>5, <1>6, <1>7 DEF n, longer

(* Record writes to a slot that holds nothing of the window in force, so   *)
(* each outflow of the shortest window keeps its own, and those it counts  *)
(* are at least the outflows of that window.                               *)
LEMMA PaymentRecorded ==
  ASSUME FundsInv, NEW amount \in Amounts, Record(amount),
         outflows' = Append(outflows, [time |-> now, amount |-> amount])
  PROVE  /\ outflows' \in Seq(Outflow)
         /\ window' \in [1..Entries -> Slot]
         /\ InSlots(Since(outflows', now - shortest), outflows', window')
         /\ WithinCap
<1> DEFINE moment == now - shortest
           old == Since(outflows, moment)
           counted == {i \in 1..Entries : Counts(window[i])}
           free == (1..Entries) \ counted
           slot == Min(free)
           new == [time |-> now, amount |-> amount]
           n == Len(outflows) + 1
           all == Since(outflows', moment)
<1>1. /\ now \in 0..MaxTime /\ now \in Nat
      /\ shortest \in Nat \ {0} /\ config.window \in Nat
      /\ shortest <= config.window /\ amount \in Nat \ {0}
      /\ window \in [1..Entries -> Slot] /\ outflows \in Seq(Outflow)
      /\ treasury.rollingCap \in Nat
  <2>1. /\ now \in 0..MaxTime /\ shortest <= config.window
        /\ window \in [1..Entries -> Slot] /\ outflows \in Seq(Outflow)
    BY DEF FundsInv, FundsTyped
  <2>2. amount \in Nat \ {0}
    BY ReceiverConstants
  <2> QED
    BY <2>1, <2>2, FundsNumbers DEF FundsInv
<1>2. /\ MapThenSumSet(LAMBDA i : window[i].amount, counted) + amount
           <= treasury.rollingCap
      /\ free # {}
      /\ window' = [window EXCEPT ![slot] = new]
  BY DEF Record
<1>3. new \in Outflow /\ new \in Slot
  BY <1>1 DEF Outflow, Slot
<1>4. new.time = now /\ now > moment /\ moment \in Int
  BY <1>1
<1>5. slot \in free /\ slot \in 1..Entries
  <2>1. free \in SUBSET Nat
    BY ReceiverConstants
  <2> HIDE DEF free
  <2>2. slot \in free
    BY <1>2, <2>1, LowestIsLeast
  <2> QED
    BY <2>2 DEF free
<1>6. PICK h \in [old -> 1..Entries] :
        /\ \A x, y \in old : h[x] = h[y] => x = y
        /\ \A x \in old : window[h[x]] = outflows[x]
  BY DEF FundsInv, Recorded, InSlots
<1>7. ASSUME NEW x \in old
      PROVE  /\ h[x] \in counted
             /\ window[h[x]].amount = outflows[x].amount
  <2>1. outflows[x] \in Outflow /\ outflows[x].time > moment
    BY <1>1 DEF Since
  <2>2. outflows[x].amount \in Nat \ {0} /\ outflows[x].time \in Nat
    <3>1. outflows[x].amount \in Amounts /\ outflows[x].time \in 0..MaxTime
      BY <2>1 DEF Outflow
    <3>2. Amounts \in SUBSET Nat /\ 0 \notin Amounts
      BY ReceiverConstants
    <3>3. outflows[x].amount \in Nat \ {0}
      BY ONLY <3>1, <3>2
    <3>4. outflows[x].time \in Nat
      BY ONLY <3>1
    <3> QED
      BY <3>3, <3>4
  <2>3. outflows[x].time > now - config.window
    <3>1. /\ now \in Nat /\ shortest \in Nat /\ config.window \in Nat
          /\ shortest <= config.window
      BY <1>1
    <3> QED
      BY ONLY <2>1, <2>2, <3>1
  <2>4. window[h[x]] = outflows[x] /\ h[x] \in 1..Entries
    BY <1>6
  <2>5. Counts(window[h[x]])
    BY <2>2, <2>3, <2>4 DEF Counts
  <2> QED
    BY <2>4, <2>5
<1> HIDE DEF new, slot
<1>8. /\ outflows' \in Seq(Outflow)
      /\ all = old \cup {n} /\ n \notin old
      /\ outflows'[n] = new
      /\ \A i \in old : outflows'[i] = outflows[i]
  <2> HIDE DEF moment
  <2> DEFINE longer == Append(outflows, new)
  <2>1. outflows' = longer
    BY DEF new
  <2>2. new.time > moment
    BY <1>4 DEF new
  <2>3. /\ longer \in Seq(Outflow)
        /\ Since(longer, moment) = old \cup {n}
        /\ n \notin old
        /\ longer[n] = new
        /\ \A i \in old : longer[i] = outflows[i]
    <3>1. outflows \in Seq(Outflow) /\ new \in Outflow
      BY <1>1, <1>3
    <3> QED
      BY ONLY <2>2, <3>1, SinceAppend
  <2> HIDE DEF longer, n, old
  <2> QED
    BY <2>1, <2>3
<1>9. window' \in [1..Entries -> Slot]
  BY <1>1, <1>2, <1>3, <1>5
<1> DEFINE F == [x \in all |-> outflows'[x].amount]
           G == [i \in 1..Entries |-> window[i].amount]
           k == [x \in all |-> IF x = n THEN slot ELSE h[x]]
<1>10. InSlots(all, outflows', window')
  <2>1. slot \notin counted
    BY <1>5
  <2>2. \A x \in old : h[x] \in 1..Entries /\ h[x] # slot
    BY <1>7, <2>1
  <2> HIDE DEF old, all, n, counted, free
  <2>3. k \in [all -> 1..Entries]
    BY <1>5, <1>6, <1>8
  <2>4. \A x, y \in all : k[x] = k[y] => x = y
    BY <1>6, <1>8, <2>2
  <2>5. \A x \in all : window'[k[x]] = outflows'[x]
    <3> SUFFICES ASSUME NEW x \in all PROVE window'[k[x]] = outflows'[x]
      OBVIOUS
    <3>1. CASE x = n
      BY <1>1, <1>2, <1>5, <1>8, <3>1
    <3>2. CASE x # n
      <4>1. x \in old /\ k[x] = h[x]
        BY <1>8, <3>2
      <4>2. window'[h[x]] = window[h[x]]
        BY <1>1, <1>2, <2>2, <4>1
      <4> QED
        BY <1>6, <1>8, <4>1, <4>2
    <3> QED
      BY <3>1, <3>2
  <2> HIDE DEF k
  <2> QED
    BY <2>3, <2>4, <2>5 DEF InSlots
<1>11. IsFiniteSet(old) /\ IsFiniteSet(all) /\ IsFiniteSet(counted)
  <2>1. IsFiniteSet(old) /\ IsFiniteSet(all)
    BY <1>1, <1>8, SinceFinite
  <2>2. counted \subseteq 1..Entries
    OBVIOUS
  <2> HIDE DEF counted
  <2> QED
    BY <2>1, <2>2, SlotsFinite, FS_Subset
<1>12. /\ \A i \in counted : G[i] \in Nat /\ G[i] = window[i].amount
       /\ \A x \in all : F[x] \in Nat /\ F[x] = outflows'[x].amount
       /\ \A x \in old : F[x] = G[h[x]]
       /\ F[n] = amount
  <2>1. \A i \in 1..Entries : window[i].amount \in Nat
    <3>1. \A i \in 1..Entries : window[i].amount \in {0} \cup Amounts
      BY <1>1 DEF Slot
    <3>2. \A a \in {0} \cup Amounts : a \in Nat
      BY ReceiverConstants
    <3> QED
      BY ONLY <3>1, <3>2
  <2>2. \A x \in all : outflows'[x].amount \in Nat
    <3>1. \A x \in all : outflows'[x] \in Outflow
      BY <1>8 DEF Since
    <3>2. \A x \in all : outflows'[x].amount \in Amounts
      BY <3>1 DEF Outflow
    <3> QED
      BY <3>2, ReceiverConstants
  <2>3. n \in all /\ outflows'[n].amount = amount
    BY <1>8 DEF new
  <2> HIDE DEF all, n, old
  <2> QED
    BY <1>6, <1>7, <1>8, <2>1, <2>2, <2>3
<1> HIDE DEF F, G
<1>13. Sum(F, all) = amount + Sum(F, old)
  <2>1. n \in all /\ all \ {n} = old /\ \A x \in all : F[x] \in Nat
    BY <1>8, <1>12
  <2>0. IsFiniteSet(all)
    BY <1>11
  <2> HIDE DEF n, all, old
  <2>2. Sum(F, all) = F[n] + Sum(F, all \ {n})
    BY ONLY <2>0, <2>1, SumRemove
  <2> QED
    BY <1>12, <2>1, <2>2
<1>14. /\ Sum(F, old) <= Sum(G, counted)
       /\ Sum(F, old) \in Nat /\ Sum(G, counted) \in Nat
  <2>1. h \in [old -> counted]
    BY <1>6, <1>7
  <2>2. IsFiniteSet(old) /\ IsFiniteSet(counted)
    BY <1>11
  <2>3. /\ \A x, y \in old : h[x] = h[y] => x = y
        /\ \A y \in counted : G[y] \in Nat
        /\ \A x \in old : F[x] = G[h[x]]
    BY <1>6, <1>12
  <2> HIDE DEF old, counted
  <2> QED
    <3>1. \A FF, GG, AA, BB : \A hh \in [AA -> BB] :
            /\ IsFiniteSet(AA) /\ IsFiniteSet(BB)
            /\ \A x, y \in AA : hh[x] = hh[y] => x = y
            /\ \A y \in BB : GG[y] \in Nat
            /\ \A x \in AA : FF[x] = GG[hh[x]]
            => /\ Sum(FF, AA) \in Nat /\ Sum(GG, BB) \in Nat
               /\ Sum(FF, AA) <= Sum(GG, BB)
      <4> TAKE FF, GG, AA, BB
      <4> TAKE hh \in [AA -> BB]
      <4>1. HAVE /\ IsFiniteSet(AA) /\ IsFiniteSet(BB)
                 /\ \A x, y \in AA : hh[x] = hh[y] => x = y
                 /\ \A y \in BB : GG[y] \in Nat
                 /\ \A x \in AA : FF[x] = GG[hh[x]]
      <4> QED
        BY ONLY <4>1, SumMatched
    <3>2. \A BB : \A hh \in [old -> BB] :
            /\ IsFiniteSet(old) /\ IsFiniteSet(BB)
            /\ \A x, y \in old : hh[x] = hh[y] => x = y
            /\ \A y \in BB : G[y] \in Nat
            /\ \A x \in old : F[x] = G[hh[x]]
            => /\ Sum(F, old) \in Nat /\ Sum(G, BB) \in Nat
               /\ Sum(F, old) <= Sum(G, BB)
      BY ONLY <3>1
    <3> QED
      BY ONLY <2>1, <2>2, <2>3, <3>2
<1>15. MapThenSumSet(LAMBDA i : window[i].amount, counted) = Sum(G, counted)
  <2>1. IsFiniteSet(counted) /\ \A i \in counted : G[i] = window[i].amount
    BY <1>11, <1>12
  <2> HIDE DEF counted
  <2> QED
    BY ONLY <2>1, AmountsUnfold
<1>16. WithinCap
  <2> DEFINE flows == outflows'
             rolling == Sum(F, all)
  <2>1. all = {i \in 1..Len(outflows') : outflows'[i].time > now - shortest}
    BY DEF Since
  <2>2. MapThenSumSet(LAMBDA i : outflows'[i].amount, all) = Sum(F, all)
    <3>1. \A x \in all : F[x] = flows[x].amount
      BY <1>12
    <3> HIDE DEF all, flows
    <3>2. MapThenSumSet(LAMBDA i : flows[i].amount, all) = Sum(F, all)
      BY <1>11, <3>1, AmountsUnfold
    <3> QED
      BY <3>2 DEF flows
  <2>3. Sum(F, all) <= treasury.rollingCap
    <3> DEFINE a == Sum(F, all)
               b == Sum(F, old)
               c == Sum(G, counted)
    <3>1. /\ a = amount + b /\ b <= c /\ b \in Nat /\ c \in Nat
          /\ c + amount <= treasury.rollingCap
      BY <1>2, <1>13, <1>14, <1>15
    <3> HIDE DEF a, b, c
    <3>2. a <= treasury.rollingCap
      BY <1>1, <3>1
    <3> QED
      BY <3>2 DEF a
  <2> HIDE DEF all
  <2> QED
    BY <2>1, <2>2, <2>3 DEF WithinCap
<1> QED
  BY <1>8, <1>9, <1>10, <1>16
-----------------------------------------------------------------------------
(* What each operation does to the treasury and its record. *)

(* Nothing that the record depends on changes but the length of time.      *)
LEMMA RecordKept ==
  ASSUME FundsTyped, Recorded, UNCHANGED <<window, outflows>>,
         now' \in Nat, shortest' \in Nat,
         now - shortest <= now' - shortest'
  PROVE  Recorded'
<1> DEFINE old == Since(outflows, now - shortest)
           new == Since(outflows, now' - shortest')
<1>1. new \subseteq old
  <2> SUFFICES ASSUME NEW i \in new PROVE i \in old
    OBVIOUS
  <2>1. i \in 1..Len(outflows) /\ outflows[i].time > now' - shortest'
    BY DEF Since
  <2>2. outflows[i] \in Outflow
    BY <2>1 DEF FundsTyped
  <2>3. outflows[i].time \in Nat /\ now \in Nat
    BY <2>2, ReceiverConstants DEF Outflow, FundsTyped
  <2>4. shortest \in Nat
    BY ReceiverConstants DEF FundsTyped
  <2>5. outflows[i].time > now - shortest
    <3>1. ASSUME NEW a \in Nat, NEW b \in Nat, NEW c \in Nat, NEW d \in Nat,
                 NEW t \in Nat, t > c - d, a - b <= c - d
          PROVE  t > a - b
      BY ONLY <3>1
    <3> QED
      BY <2>1, <2>3, <2>4, <3>1
  <2> QED
    BY <2>1, <2>5 DEF Since
<1>2. InSlots(old, outflows, window)
  BY DEF Recorded
<1> HIDE DEF old, new
<1>3. InSlots(new, outflows, window)
  BY <1>1, <1>2, FewerInSlots
<1> QED
  BY <1>3 DEF new, Recorded

(* A payment. *)
LEMMA PayKeepsFunds ==
  ASSUME FundsInv, NEW amount \in Amounts, NEW box, Pay(amount, box),
         now' = now
  PROVE  /\ FundsInv'
         /\ Len(outflows') > Len(outflows) => WithinCap
<1>1. UNCHANGED <<config, treasury, shortest>>
  BY DEF Pay
<1>2. CASE ~treasury.registered /\ UNCHANGED <<window, outflows>>
  <2>1. ~(Len(outflows') > Len(outflows))
    <3>1. Len(outflows) \in Nat
      BY DEF FundsInv, FundsTyped
    <3> QED
      BY <1>2, <3>1
  <2> QED
    BY <1>1, <1>2, <2>1 DEF FundsInv, FundsTyped, Recorded
<1>3. CASE /\ treasury.registered
           /\ Record(amount)
           /\ outflows' = Append(outflows, [time |-> now, amount |-> amount])
  <2>1. /\ outflows' \in Seq(Outflow)
        /\ window' \in [1..Entries -> Slot]
        /\ InSlots(Since(outflows', now - shortest), outflows', window')
        /\ WithinCap
    BY <1>3, PaymentRecorded
  <2>2. FundsTyped'
    BY <1>1, <1>3, <2>1 DEF FundsInv, FundsTyped
  <2>3. Recorded'
    BY <1>1, <2>1 DEF Recorded
  <2> QED
    BY <2>1, <2>2, <2>3 DEF FundsInv
<1> QED
  BY <1>2, <1>3 DEF Pay

(* A change of the configuration: the shortest window never grows. *)
LEMMA SetKeepsFunds ==
  ASSUME FundsInv, NEW field, NEW value, Set(field, value),
         config' \in Config, now' = now
  PROVE  FundsInv' /\ UNCHANGED outflows
<1>1. /\ shortest' = Min({shortest, config'.window})
      /\ UNCHANGED <<treasury, window, outflows>>
  BY DEF Set
<1>2. /\ shortest \in Windows /\ config'.window \in Windows
      /\ shortest \in Nat /\ config'.window \in Nat /\ now \in Nat
  <2>1. shortest \in Windows /\ config'.window \in Windows
    BY DEF FundsInv, FundsTyped, Config
  <2>2. config'.window \in Nat
    BY ONLY <2>1, ReceiverConstants
  <2> QED
    BY <2>1, <2>2, FundsNumbers DEF FundsInv
<1> DEFINE w == config'.window
<1>3. /\ shortest' \in {shortest, w} /\ shortest' <= shortest
      /\ shortest' <= w
  <2>1. {shortest, w} \in SUBSET Nat
    BY <1>2
  <2> HIDE DEF w
  <2> QED
    BY <1>1, <2>1, LowestIsLeast DEF w
<1>4. shortest' \in Windows /\ shortest' \in Nat
  BY <1>2, <1>3
<1>5. FundsTyped'
  BY <1>1, <1>3, <1>4 DEF FundsInv, FundsTyped
<1>6. now - shortest <= now' - shortest'
  <2>1. now' = now /\ shortest' <= shortest
    BY <1>3
  <2>2. now \in Nat /\ shortest \in Nat /\ shortest' \in Nat
    BY <1>2, <1>4
  <2>3. \A a, b, c \in Nat : c <= b => a - b <= a - c
    OBVIOUS
  <2>4. now - shortest <= now - shortest'
    BY ONLY <2>1, <2>2, <2>3
  <2> QED
    BY ONLY <2>1, <2>4
<1>7. Recorded'
  <2>1. now' \in Nat
    BY <1>2
  <2> QED
    BY <1>1, <1>4, <1>6, <2>1, RecordKept DEF FundsInv
<1> QED
  BY <1>1, <1>5, <1>7 DEF FundsInv

(* The configuration keeps its type, whichever field is set. *)
LEMMA SetKeepsType ==
  ASSUME FundsInv, NEW i \in Instructions,
         \/ i.name = "pause" /\ Set("paused", TRUE)
         \/ i.name = "unpause" /\ Set("paused", FALSE)
         \/ i.name = "set_delay" /\ Set("delay", i.value)
         \/ i.name = "set_window" /\ Set("window", i.value)
         \/ i.name = "set_emitter" /\ Set("emitter", i.value)
  PROVE  config' \in Config
<1>1. config \in Config
  BY DEF FundsInv, FundsTyped
<1>2. CASE i.name = "pause" /\ Set("paused", TRUE)
  BY <1>1, <1>2 DEF Set, Config
<1>3. CASE i.name = "unpause" /\ Set("paused", FALSE)
  BY <1>1, <1>3 DEF Set, Config
<1>4. CASE i.name = "set_delay" /\ Set("delay", i.value)
  <2>1. i.value \in Delays
    BY <1>4, InstructionKinds
  <2> QED
    BY <1>1, <1>4, <2>1 DEF Set, Config
<1>5. CASE i.name = "set_window" /\ Set("window", i.value)
  <2>1. i.value \in Windows
    BY <1>5, InstructionKinds
  <2> QED
    BY <1>1, <1>5, <2>1 DEF Set, Config
<1>6. CASE i.name = "set_emitter" /\ Set("emitter", i.value)
  <2>1. i.value \in Emitters
    BY <1>6, InstructionKinds
  <2> QED
    BY <1>1, <1>6, <2>1 DEF Set, Config
<1> QED
  BY <1>2, <1>3, <1>4, <1>5, <1>6

LEMMA EmptyIsWindow == Empty \in [1..Entries -> Slot]
<1>1. 0 \in 0..MaxTime
  BY ReceiverConstants
<1> QED
  BY <1>1 DEF Empty, Slot

(* What happens to the messages besides the one that is executed. *)
BoxAfter(box) ==
  \/ messages' = box
  \/ \E seq \in Sequences : /\ box[seq].state = "pending"
                            /\ messages' = Cancelled(box, seq)

LEMMA GovernKeepsFunds ==
  ASSUME FundsInv, allowed \subseteq Programs \cup {Self},
         NEW i \in Instructions, NEW box, Govern(i, box), now' = now
  PROVE  /\ FundsInv'
         /\ ~(Len(outflows') > Len(outflows))
         /\ allowed' \subseteq Programs \cup {Self}
         /\ BoxAfter(box)
<1>1. Len(outflows) \in Nat
  BY DEF FundsInv, FundsTyped
<1>2. CASE /\ \/ i.name = "pause" /\ ~config.paused /\ Set("paused", TRUE)
              \/ i.name = "unpause" /\ config.paused /\ Set("paused", FALSE)
              \/ i.name = "set_delay" /\ Set("delay", i.value)
              \/ i.name = "set_window" /\ Set("window", i.value)
              \/ i.name = "set_emitter" /\ Set("emitter", i.value)
           /\ messages' = box
  <2>1. config' \in Config
    BY <1>2, SetKeepsType
  <2>2. FundsInv' /\ UNCHANGED outflows
    BY <1>2, <2>1, SetKeepsFunds
  <2>3. allowed' = allowed
    BY <1>2 DEF Set
  <2> QED
    BY <1>1, <1>2, <2>2, <2>3 DEF BoxAfter
<1>3. CASE /\ \/ i.name = "allow" /\ allowed' = allowed \cup {i.value}
              \/ i.name = "disallow" /\ allowed' = allowed \ {i.value}
           /\ UNCHANGED <<config, funds>>
           /\ messages' = box
  <2>1. allowed' \subseteq Programs \cup {Self}
    BY <1>3, InstructionKinds
  <2> QED
    BY <1>1, <1>3, <2>1 DEF FundsInv, FundsTyped, Recorded, funds, BoxAfter
<1>4. CASE /\ i.name = "cancel"
           /\ box[i.value].state = "pending"
           /\ messages' = Cancelled(box, i.value)
           /\ UNCHANGED <<config, allowed, funds>>
  <2>1. BoxAfter(box)
    BY <1>4, InstructionKinds DEF BoxAfter
  <2> QED
    BY <1>1, <1>4, <2>1 DEF FundsInv, FundsTyped, Recorded, funds
<1>5. CASE /\ \/ /\ i.name = "set_caps" /\ treasury.registered
                 /\ UNCHANGED <<window, outflows>>
              \/ /\ i.name = "register" /\ ~treasury.registered
                 /\ window' = Empty
                 /\ outflows' = <<>>
           /\ CapsFit(i.value, i.rolling)
           /\ treasury' = [registered |-> TRUE, perMessageCap |-> i.value,
                           rollingCap |-> i.rolling]
           /\ messages' = box
           /\ UNCHANGED <<config, allowed, shortest>>
  <2>1. i.value \in Caps /\ i.rolling \in Caps
    BY <1>5, InstructionKinds
  <2>2. /\ treasury' \in Funded /\ treasury'.registered
        /\ treasury'.perMessageCap <= treasury'.rollingCap
    BY <1>5, <2>1 DEF Funded, CapsFit
  <2>3. CASE UNCHANGED <<window, outflows>>
    BY <1>1, <1>5, <2>2, <2>3 DEF FundsInv, FundsTyped, Recorded, BoxAfter
  <2>4. CASE window' = Empty /\ outflows' = <<>>
    <3>1. FundsTyped'
      BY <1>5, <2>2, <2>4, EmptyIsWindow DEF FundsInv, FundsTyped
    <3>2. Recorded'
      BY <2>4, NothingInSlots DEF Recorded
    <3> QED
      BY <1>1, <1>5, <2>4, <3>1, <3>2 DEF FundsInv, BoxAfter
  <2> QED
    BY <1>5, <2>3, <2>4
<1>6. CASE /\ i.name = "deregister" /\ treasury.registered
           /\ treasury' = [treasury EXCEPT !.registered = FALSE]
           /\ window' = Empty
           /\ outflows' = <<>>
           /\ messages' = box
           /\ UNCHANGED <<config, allowed, shortest>>
  <2>1. /\ treasury' \in Funded /\ ~treasury'.registered
        /\ treasury'.perMessageCap <= treasury'.rollingCap
    BY <1>6 DEF FundsInv, FundsTyped, Funded
  <2>2. FundsTyped'
    BY <1>6, <2>1, EmptyIsWindow DEF FundsInv, FundsTyped
  <2>3. Recorded'
    BY <1>6, NothingInSlots DEF Recorded
  <2> QED
    BY <1>1, <1>6, <2>2, <2>3 DEF FundsInv, BoxAfter
<1> QED
  BY <1>2, <1>3, <1>4, <1>5, <1>6 DEF Govern, funds

(* Time passes. *)
LEMMA TickKeepsFunds ==
  ASSUME FundsInv, now < MaxTime, now' = now + 1, UNCHANGED <<config, funds>>
  PROVE  FundsInv'
<1>1. /\ now \in Nat /\ shortest \in Nat /\ shortest \in Windows
      /\ now' \in 0..MaxTime
  BY ReceiverConstants DEF FundsInv, FundsTyped
<1>2. FundsTyped'
  BY <1>1 DEF FundsInv, FundsTyped, funds
<1>3. now' \in Nat /\ now - shortest <= now' - shortest
  BY <1>1
<1>4. Recorded'
  BY <1>1, <1>3, RecordKept DEF FundsInv, funds
<1> QED
  BY <1>2, <1>4 DEF FundsInv
-----------------------------------------------------------------------------
(* What each operation does to the messages. *)

(* Cancelling a message that waits, or leaving the messages alone.         *)
LEMMA BoxAfterSound ==
  ASSUME NEW box \in [Sequences -> Message], NEW runs \in [Sequences -> Nat],
         \A seq \in Sequences : MessageSound(box[seq], runs[seq]),
         BoxAfter(box), performed' = runs
  PROVE  /\ BoxInv'
         /\ \A seq \in Sequences :
              box[seq].state = "cancelled" => messages'[seq].state = "cancelled"
<1>1. CASE messages' = box
  BY <1>1 DEF BoxInv
<1>2. ASSUME NEW seq \in Sequences, box[seq].state = "pending",
             messages' = Cancelled(box, seq)
      PROVE  /\ BoxInv'
             /\ \A q \in Sequences :
                  box[q].state = "cancelled" => messages'[q].state = "cancelled"
  <2> DEFINE m == [box[seq] EXCEPT !.state = "cancelled"]
  <2>1. messages' = [box EXCEPT ![seq] = m]
    BY <1>2 DEF Cancelled
  <2>2. box[seq] \in Message
    OBVIOUS
  <2>3. /\ m \in Message /\ m.state = "cancelled"
        /\ m.instruction = box[seq].instruction
        /\ m.receivedAt = box[seq].receivedAt
        /\ m.executableAt = box[seq].executableAt
    BY <2>2 DEF Message
  <2> HIDE DEF m
  <2>4. MessageSound(m, runs[seq])
    BY <1>2, <2>3 DEF MessageSound
  <2>5. /\ messages' \in [Sequences -> Message]
        /\ messages'[seq] = m
        /\ \A q \in Sequences \ {seq} : messages'[q] = box[q]
    BY <2>1, <2>3
  <2>6. \A q \in Sequences : MessageSound(messages'[q], runs[q])
    BY <2>4, <2>5
  <2> QED
    BY <2>3, <2>5, <2>6 DEF BoxInv
<1> QED
  BY <1>1, <1>2 DEF BoxAfter

LEMMA ReceiveKeepsBox ==
  ASSUME ReceiverInv, NEW e \in Emitters, NEW seq \in Sequences,
         NEW i \in Carried, ReceiveMessage(e, seq, i)
  PROVE  BoxInv' /\ messages[seq].state = "absent"
                 /\ \A q \in Sequences \ {seq} : messages'[q] = messages[q]
<1> DEFINE m == [state |-> "pending", instruction |-> i, receivedAt |-> now,
                 executableAt |-> now + config.delay]
<1>1. /\ messages' = [messages EXCEPT ![seq] = m]
      /\ messages[seq].state = "absent"
      /\ performed' = performed
  BY DEF ReceiveMessage, Fresh
<1>2. /\ now \in 0..MaxTime /\ now \in Nat /\ config.delay \in Delays
  BY FundsNumbers DEF ReceiverInv, FundsInv, FundsTyped, Config
<1>3. /\ config.delay \in Nat /\ Min(Delays) \in Nat
      /\ Min(Delays) <= config.delay
  BY <1>2, LeastDelay, ReceiverConstants
<1>4. now + config.delay \in Nat /\ now + config.delay >= now + Min(Delays)
  BY <1>2, <1>3
<1>5. m \in Message
  BY <1>2, <1>4 DEF Message
<1>6. performed[seq] = 0
  BY <1>1 DEF ReceiverInv, BoxInv, MessageSound
<1>7. MessageSound(m, performed[seq])
  BY <1>4, <1>6 DEF MessageSound
<1> HIDE DEF m
<1>8. /\ messages' \in [Sequences -> Message]
      /\ messages'[seq] = m
      /\ \A q \in Sequences \ {seq} : messages'[q] = messages[q]
  BY <1>1, <1>5 DEF ReceiverInv, BoxInv
<1> QED
  BY <1>1, <1>7, <1>8 DEF ReceiverInv, BoxInv

(* The message is marked before its instruction runs. *)
LEMMA ExecuteMarks ==
  ASSUME ReceiverInv, NEW seq \in Sequences, Execute(seq)
  PROVE  LET box == [messages EXCEPT ![seq].state = "executed"]
             i == messages[seq].instruction
         IN  /\ box \in [Sequences -> Message]
             /\ performed' \in [Sequences -> Nat]
             /\ \A q \in Sequences : MessageSound(box[q], performed'[q])
             /\ \A q \in Sequences \ {seq} :
                  box[q] = messages[q] /\ performed'[q] = performed[q]
             /\ i \in Carried /\ i \in Instructions
<1> DEFINE box == [messages EXCEPT ![seq].state = "executed"]
           m == [messages[seq] EXCEPT !.state = "executed"]
<1>1. /\ messages[seq].state = "pending"
      /\ performed' = [performed EXCEPT ![seq] = performed[seq] + 1]
  BY DEF Execute
<1>2. /\ messages \in [Sequences -> Message]
      /\ performed \in [Sequences -> Nat]
      /\ \A q \in Sequences : MessageSound(messages[q], performed[q])
  BY DEF ReceiverInv, BoxInv
<1>3. box = [messages EXCEPT ![seq] = m]
  OBVIOUS
<1>4. /\ m \in Message /\ m.state = "executed"
      /\ m.instruction = messages[seq].instruction
      /\ m.receivedAt = messages[seq].receivedAt
      /\ m.executableAt = messages[seq].executableAt
  <2>1. messages[seq] \in Message
    BY <1>2
  <2> QED
    BY <2>1 DEF Message
<1> HIDE DEF box, m
<1>5. /\ performed' \in [Sequences -> Nat]
      /\ \A q \in Sequences \ {seq} : performed'[q] = performed[q]
  BY <1>1, <1>2
<1>6. /\ box \in [Sequences -> Message] /\ box[seq] = m
      /\ \A q \in Sequences \ {seq} : box[q] = messages[q]
  BY <1>2, <1>3, <1>4
<1>7. MessageSound(m, performed'[seq])
  BY <1>1, <1>2, <1>4 DEF MessageSound
<1>8. /\ messages[seq].instruction \in Carried
      /\ messages[seq].instruction \in Instructions
  BY <1>1, <1>2, ReceiverAssumption DEF MessageSound, ReceiverAssumption
<1> QED
  BY <1>2, <1>5, <1>6, <1>7, <1>8 DEF box

(* What the property on messages asks of a step. *)
RunsInTime ==
  \A seq \in Sequences :
    /\ messages[seq].state = "cancelled" => messages'[seq].state = "cancelled"
    /\ performed'[seq] # performed[seq] =>
         /\ performed[seq] = 0
         /\ messages[seq].state # "cancelled"
         /\ now >= messages[seq].receivedAt + Min(Delays)
         /\ config.paused => IsUnpause(messages[seq].instruction)

LEMMA ExecuteKeepsInv ==
  ASSUME ReceiverInv, NEW seq \in Sequences, Execute(seq)
  PROVE  /\ ReceiverInv'
         /\ RunsInTime
         /\ Len(outflows') > Len(outflows) => WithinCap
<1> DEFINE box == [messages EXCEPT ![seq].state = "executed"]
           i == messages[seq].instruction
<1>1. /\ box \in [Sequences -> Message]
      /\ performed' \in [Sequences -> Nat]
      /\ \A q \in Sequences : MessageSound(box[q], performed'[q])
      /\ \A q \in Sequences \ {seq} :
           box[q] = messages[q] /\ performed'[q] = performed[q]
      /\ i \in Carried /\ i \in Instructions
  BY ExecuteMarks
<1>2. /\ messages[seq].state = "pending"
      /\ now >= messages[seq].executableAt
      /\ PassesPause(i)
      /\ UNCHANGED <<now, setups>>
      /\ \/ i.target = Self /\ Govern(i, box)
         \/ i.target # Self /\ Pay(i.value, box)
  BY DEF Execute
<1> HIDE DEF box
<1>3. /\ FundsInv' /\ BoxAfter(box)
      /\ allowed' \subseteq Programs \cup {Self}
      /\ Len(outflows') > Len(outflows) => WithinCap
  <2>1. CASE i.target = Self /\ Govern(i, box)
    <3> HIDE DEF i
    <3> QED
      BY <1>1, <1>2, <2>1, GovernKeepsFunds DEF ReceiverInv
  <2>2. CASE i.target # Self /\ Pay(i.value, box)
    <3>1. i.value \in Amounts
      BY <1>1, <2>2, InstructionKinds
    <3>2. BoxAfter(box) /\ allowed' = allowed
      BY <2>2 DEF Pay, BoxAfter
    <3>3. now' = now
      BY <1>2
    <3> HIDE DEF i
    <3> QED
      BY <2>2, <3>1, <3>2, <3>3, PayKeepsFunds DEF ReceiverInv
  <2> QED
    BY <1>2, <2>1, <2>2
<1>4. /\ BoxInv'
      /\ \A q \in Sequences :
           box[q].state = "cancelled" => messages'[q].state = "cancelled"
  <2> DEFINE runs == performed'
  <2>1. runs \in [Sequences -> Nat] /\ performed' = runs
    BY <1>1
  <2>2. \A q \in Sequences : MessageSound(box[q], runs[q])
    BY <1>1
  <2> HIDE DEF runs
  <2> QED
    BY <1>1, <1>3, <2>1, <2>2, BoxAfterSound
<1>5. ReceiverInv'
  BY <1>2, <1>3, <1>4 DEF ReceiverInv
<1>6. RunsInTime
  <2> SUFFICES ASSUME NEW q \in Sequences
               PROVE  /\ messages[q].state = "cancelled" =>
                           messages'[q].state = "cancelled"
                      /\ performed'[q] # performed[q] =>
                           /\ performed[q] = 0
                           /\ messages[q].state # "cancelled"
                           /\ now >= messages[q].receivedAt + Min(Delays)
                           /\ config.paused =>
                                IsUnpause(messages[q].instruction)
    BY DEF RunsInTime
  <2>1. CASE q # seq
    BY <1>1, <1>4, <2>1
  <2>2. CASE q = seq
    <3>1. messages[seq] \in Message /\ MessageSound(messages[seq], performed[seq])
      BY DEF ReceiverInv, BoxInv
    <3>2. /\ performed[seq] = 0
          /\ messages[seq].executableAt >= messages[seq].receivedAt + Min(Delays)
          /\ messages[seq].executableAt \in Nat
          /\ messages[seq].receivedAt \in 0..MaxTime
      BY <1>2, <3>1 DEF MessageSound, Message
    <3>3. now \in Nat /\ Min(Delays) \in Nat /\ messages[seq].receivedAt \in Nat
      BY <3>2, FundsNumbers, LeastDelay, ReceiverConstants
         DEF ReceiverInv, FundsInv
    <3>4. now >= messages[seq].receivedAt + Min(Delays)
      BY ONLY <1>2, <3>2, <3>3
    <3> QED
      BY <1>2, <2>2, <3>2, <3>4 DEF PassesPause
  <2> QED
    BY <2>1, <2>2
<1> QED
  BY <1>3, <1>5, <1>6

-----------------------------------------------------------------------------
(* The invariant, and what every step keeps. *)

LEMMA ReceiverInit == Init => ReceiverInv
<1> SUFFICES ASSUME Init PROVE ReceiverInv
  OBVIOUS
<1>1. FundsInv
  <2>1. PICK s \in Start :
          /\ config = [paused |-> FALSE, bootstrapping |-> TRUE,
                       emitter |-> s.emitter, delay |-> s.delay,
                       window |-> s.window]
          /\ shortest = s.window
          /\ treasury = [registered |-> TRUE,
                         perMessageCap |-> s.perMessageCap,
                         rollingCap |-> s.rollingCap]
    BY DEF Init
  <2>2. /\ s.emitter \in Emitters /\ s.delay \in Delays /\ s.window \in Windows
        /\ s.perMessageCap \in Caps /\ s.rollingCap \in Caps
        /\ s.perMessageCap <= s.rollingCap
    BY ReceiverAssumption DEF ReceiverAssumption
  <2>3. config \in Config /\ treasury \in Funded
    BY <2>1, <2>2 DEF Config, Funded
  <2>4. shortest \in Windows /\ shortest <= config.window
    <3>1. s.window \in Nat
      BY ONLY <2>2, ReceiverConstants
    <3> QED
      BY <2>1, <2>2, <3>1
  <2>5. now \in 0..MaxTime
    BY ReceiverConstants DEF Init
  <2>6. outflows \in Seq(Outflow) /\ outflows = <<>> /\ window = Empty
    BY DEF Init
  <2>7. Recorded
    BY <2>6, NothingInSlots DEF Recorded
  <2> QED
    BY <2>1, <2>2, <2>3, <2>4, <2>5, <2>6, <2>7, EmptyIsWindow
       DEF FundsInv, FundsTyped
<1>2. BoxInv
  <2>1. 0 \in 0..MaxTime
    BY ReceiverConstants
  <2>2. Absent \in Message /\ MessageSound(Absent, 0)
    BY <2>1 DEF Absent, Message, MessageSound
  <2> QED
    BY <2>2 DEF Init, BoxInv
<1>3. setups \in 0..MaxSetup
  BY ReceiverConstants DEF Init
<1> QED
  BY <1>1, <1>2, <1>3 DEF Init, ReceiverInv

(* A step that runs no instruction. *)
LEMMA QuietStep ==
  ASSUME ReceiverInv, performed' = performed,
         \A seq \in Sequences : messages[seq].state = "cancelled" =>
                                  messages'[seq].state = "cancelled"
  PROVE  RunsInTime
BY DEF RunsInTime

LEMMA BoundedSetups ==
  ASSUME ReceiverInv, Bounded
  PROVE  setups' \in 0..MaxSetup /\ now' = now /\ performed' = performed
BY ReceiverConstants DEF Bounded, ReceiverInv

LEMMA AdminKeepsInv ==
  ASSUME ReceiverInv, NEW i \in Setup, BootstrapAdmin(i)
  PROVE  ReceiverInv' /\ RunsInTime /\ ~(Len(outflows') > Len(outflows))
<1>1. setups' \in 0..MaxSetup /\ now' = now /\ performed' = performed
  BY BoundedSetups DEF BootstrapAdmin
<1>2. i \in Instructions
  BY ReceiverAssumption DEF ReceiverAssumption
<1>3. CASE FinishBootstrap
  <2>1. Set("bootstrapping", FALSE) /\ messages' = messages
    BY <1>3 DEF FinishBootstrap
  <2>2. config' \in Config
    <3>1. config \in Config
      BY DEF ReceiverInv, FundsInv, FundsTyped
    <3> QED
      BY <2>1, <3>1 DEF Set, Config
  <2>3. FundsInv' /\ UNCHANGED outflows
    BY <1>1, <2>1, <2>2, SetKeepsFunds DEF ReceiverInv
  <2>4. allowed' = allowed
    BY <2>1 DEF Set
  <2>5. ~(Len(outflows') > Len(outflows))
    <3>1. Len(outflows) \in Nat
      BY DEF ReceiverInv, FundsInv, FundsTyped
    <3> QED
      BY <2>3, <3>1
  <2> QED
    BY <1>1, <2>1, <2>3, <2>4, <2>5, QuietStep DEF ReceiverInv, BoxInv
<1>4. CASE Govern(i, messages)
  <2>1. /\ FundsInv' /\ ~(Len(outflows') > Len(outflows))
        /\ allowed' \subseteq Programs \cup {Self}
        /\ BoxAfter(messages)
    BY <1>1, <1>2, <1>4, GovernKeepsFunds DEF ReceiverInv
  <2>2. /\ BoxInv'
        /\ \A seq \in Sequences : messages[seq].state = "cancelled" =>
                                    messages'[seq].state = "cancelled"
    BY <1>1, <2>1, BoxAfterSound DEF ReceiverInv, BoxInv
  <2> QED
    BY <1>1, <2>1, <2>2, QuietStep DEF ReceiverInv
<1> QED
  BY <1>3, <1>4 DEF BootstrapAdmin

LEMMA ReceiverStep ==
  ASSUME ReceiverInv, [Next]_vars
  PROVE  /\ ReceiverInv'
         /\ RunsInTime
         /\ Len(outflows') > Len(outflows) => WithinCap
<1>1. Len(outflows) \in Nat
  BY DEF ReceiverInv, FundsInv, FundsTyped
<1>2. ASSUME NEW e \in Emitters, NEW seq \in Sequences, NEW i \in Carried,
             ReceiveMessage(e, seq, i)
      PROVE  ReceiverInv' /\ RunsInTime /\ UNCHANGED outflows
  <2>1. /\ BoxInv' /\ messages[seq].state = "absent"
        /\ \A q \in Sequences \ {seq} : messages'[q] = messages[q]
    BY <1>2, ReceiveKeepsBox
  <2>2. UNCHANGED <<now, config, allowed, funds, performed, setups>>
    BY <1>2 DEF ReceiveMessage
  <2>3. FundsInv'
    BY <2>2 DEF ReceiverInv, FundsInv, FundsTyped, Recorded, funds
  <2> QED
    BY <2>1, <2>2, <2>3, QuietStep DEF ReceiverInv, funds
<1>3. ASSUME NEW seq \in Sequences, GuardianCancel(seq)
      PROVE  ReceiverInv' /\ RunsInTime /\ UNCHANGED outflows
  <2>1. UNCHANGED <<now, config, allowed, funds, performed, setups>>
    BY <1>3 DEF GuardianCancel
  <2>2. FundsInv'
    BY <2>1 DEF ReceiverInv, FundsInv, FundsTyped, Recorded, funds
  <2>3. BoxAfter(messages)
    BY <1>3 DEF GuardianCancel, BoxAfter
  <2>4. /\ BoxInv'
        /\ \A q \in Sequences : messages[q].state = "cancelled" =>
                                  messages'[q].state = "cancelled"
    BY <2>1, <2>3, BoxAfterSound DEF ReceiverInv, BoxInv
  <2> QED
    BY <2>1, <2>2, <2>4, QuietStep DEF ReceiverInv, funds
<1>4. CASE Pause
  <2>1. Set("paused", TRUE) /\ messages' = messages
    BY <1>4 DEF Pause
  <2>2. setups' \in 0..MaxSetup /\ now' = now /\ performed' = performed
    BY <1>4, BoundedSetups DEF Pause
  <2>3. config' \in Config
    <3>1. config \in Config
      BY DEF ReceiverInv, FundsInv, FundsTyped
    <3> QED
      BY <2>1, <3>1 DEF Set, Config
  <2>4. FundsInv' /\ UNCHANGED outflows
    BY <2>1, <2>2, <2>3, SetKeepsFunds DEF ReceiverInv
  <2>5. allowed' = allowed
    BY <2>1 DEF Set
  <2> QED
    BY <1>1, <2>1, <2>2, <2>4, <2>5, QuietStep DEF ReceiverInv, BoxInv
<1>5. CASE Tick
  <2>1. FundsInv'
    BY <1>5, TickKeepsFunds DEF Tick, ReceiverInv
  <2> QED
    BY <1>1, <1>5, <2>1, QuietStep DEF Tick, ReceiverInv, BoxInv, funds
<1>6. CASE UNCHANGED vars
  <2>1. FundsInv'
    BY <1>6 DEF vars, ReceiverInv, FundsInv, FundsTyped, Recorded, funds
  <2> QED
    BY <1>1, <1>6, <2>1, QuietStep DEF vars, ReceiverInv, BoxInv, funds
<1> QED
  BY <1>1, <1>2, <1>3, <1>4, <1>5, <1>6, ExecuteKeepsInv, AdminKeepsInv DEF Next

LEMMA ReceiverInvariant == Spec => []ReceiverInv
<1>1. ReceiverInv /\ [Next]_vars => ReceiverInv'
  BY ReceiverStep
<1> QED
  BY <1>1, ReceiverInit, PTL DEF Spec

(* Every reachable state has its type: in particular, a record or a pair   *)
(* of caps that contradicts the treasury is never left behind.             *)
THEOREM ReceiverTypeOK == Spec => []TypeOK
<1>1. ReceiverInv => TypeOK
  <2> SUFFICES ASSUME ReceiverInv PROVE TypeOK
    OBVIOUS
  <2>1. /\ now \in 0..MaxTime
        /\ config \in Config
        /\ allowed \subseteq Programs \cup {Self}
        /\ shortest \in Windows
        /\ treasury \in Funded
        /\ treasury.perMessageCap <= treasury.rollingCap
        /\ window \in [1..Entries -> Slot]
        /\ ~treasury.registered => window = Empty
        /\ setups \in 0..MaxSetup
    BY DEF ReceiverInv, FundsInv, FundsTyped
  <2>2. \A seq \in Sequences :
          /\ messages[seq].state \in {"absent", "pending", "executed",
                                      "cancelled"}
          /\ messages[seq].state = "absent" <=> messages[seq] = Absent
          /\ messages[seq].state # "absent" =>
               messages[seq].instruction \in Carried
          /\ performed[seq] \in Nat
    <3> TAKE seq \in Sequences
    <3>1. messages[seq] \in Message /\ MessageSound(messages[seq], performed[seq])
          /\ performed[seq] \in Nat
      BY DEF ReceiverInv, BoxInv
    <3>2. Absent.state = "absent"
      BY DEF Absent
    <3> QED
      BY <3>1, <3>2 DEF MessageSound, Message
  <2> QED
    BY <2>1, <2>2 DEF TypeOK, Config, Funded, Slot
<1> QED
  BY <1>1, ReceiverInvariant, PTL

(* window.rs: whatever is paid out of a registered treasury, the outflows  *)
(* of the shortest window in force so far, at whatever moment it begins,   *)
(* stay within the rolling cap, for any number of slots and any changes of *)
(* window and caps.                                                        *)
THEOREM RollingCapKept == Spec => RollingCapHeld
<1>1. ReceiverInv /\ [Next]_vars =>
        (Len(outflows') > Len(outflows) => WithinCap)
  BY ReceiverStep
<1>2. ReceiverInv /\ [Next]_vars =>
        (Len(outflows') > Len(outflows) =>
           MapThenSumSet(LAMBDA i : outflows'[i].amount,
                         {i \in 1..Len(outflows') :
                            outflows'[i].time > now - shortest})
             <= treasury.rollingCap)
  BY <1>1 DEF WithinCap
<1> QED
  BY <1>2, ReceiverInvariant, PTL DEF Spec, RollingCapHeld

(* execute: no instruction runs twice, before its delay, once cancelled,   *)
(* or (but for an unpause) while the receiver is paused, whatever arrives  *)
(* and however often.                                                      *)
THEOREM RunsOnce == Spec => RunsOnceInTime
<1>1. ReceiverInv /\ [Next]_vars => RunsInTime
  BY ReceiverStep
<1> QED
  BY <1>1, ReceiverInvariant, PTL DEF Spec, RunsOnceInTime, RunsInTime
=============================================================================

------------------------- MODULE MachineLifeProofs --------------------------
(***************************************************************************)
(* What MachineLife promises follows from its steps, for any incarnations  *)
(* and key pairs.                                                          *)
(***************************************************************************)
EXTENDS MachineLife, TLAPS

MachineInv == TypeOK /\ Opens /\ StartsAnew

\* "No key" and "no object" are not taken for one.
Distinct ==
    /\ None \notin KeyPairs
    /\ None \notin [uid : Uids, deleting : BOOLEAN]
    /\ None \notin [owner : Uids, key : KeyPairs]

LEMMA MachineInit == Init => MachineInv
BY DEF Init, MachineInv, TypeOK, Opens, StartsAnew, Own

\* A deletion mark is all that changes, so the secret stays the object's own.
LEMMA MarkedSame ==
  ASSUME Distinct, TypeOK, Marked
  PROVE  TypeOK' /\ Own' = Own /\ object # None /\ object' # None
<1>1. PICK t : t = TRUE
  OBVIOUS
<1> DEFINE marked == [object EXCEPT !.deleting = t]
<1>2. object' = marked
  BY <1>1 DEF Marked
<1>3. object \in [uid : Uids, deleting : BOOLEAN]
  BY DEF Marked, TypeOK
<1>4. marked \in [uid : Uids, deleting : BOOLEAN]
  BY <1>1, <1>3, Zenon
<1>5. marked.uid = object.uid
  BY <1>3
<1>6. object # None /\ object' # None
  BY <1>2, <1>4 DEF Distinct, Marked
<1>7. Own' = Own
  BY <1>2, <1>5, <1>6 DEF Own, Marked
<1>8. TypeOK'
  BY <1>2, <1>4 DEF TypeOK, Marked
<1>9. QED
  BY <1>6, <1>7, <1>8

LEMMA MachineNext ==
  ASSUME Distinct, MachineInv, [Next]_machine
  PROVE  MachineInv'
<1> USE DEF MachineInv
<1>1. CASE Created
  <2>1. PICK u \in Uids : /\ secret # None => secret.owner # u
                          /\ object' = [uid |-> u, deleting |-> FALSE]
    BY <1>1 DEF Created
  <2>2. object' \in [uid : Uids, deleting : BOOLEAN] /\ object'.uid = u
    BY <2>1
  <2>3. object = None /\ object' # None /\ UNCHANGED <<key, secret>>
    BY <1>1, <2>2 DEF Created, Distinct
  <2>4. ~Own'
    BY <2>1, <2>2, <2>3 DEF Own
  <2>5. TypeOK'
    BY <2>2, <2>3 DEF TypeOK
  <2>6. QED
    BY <2>3, <2>4, <2>5 DEF Opens, StartsAnew
<1>2. CASE Marked
  <2>1. UNCHANGED <<key, secret>>
    BY <1>2 DEF Marked
  <2>2. QED
    BY <1>2, <2>1, MarkedSame DEF Opens, StartsAnew
<1>3. CASE Removed
  BY <1>3 DEF Removed, TypeOK, Opens, StartsAnew, Own
<1>4. CASE Booted \/ Rekeyed
  <2>1. /\ ~Own /\ ~Own' /\ UNCHANGED <<object, secret>>
        /\ key' \in KeyPairs /\ New(key')
    BY <1>4 DEF Booted, Rekeyed, Own
  <2>2. Clean => object # None
    BY <1>4 DEF Booted, Rekeyed, StartsAnew
  <2>3. TypeOK'
    BY <2>1 DEF TypeOK
  <2>4. QED
    BY <2>1, <2>2, <2>3 DEF New, Opens, StartsAnew
<1>5. CASE Stopped
  BY <1>5 DEF Stopped, TypeOK, Opens, StartsAnew
<1>6. CASE Published
  <2>1. /\ object \in [uid : Uids, deleting : BOOLEAN] /\ key \in KeyPairs
        /\ secret' = [owner |-> object.uid, key |-> key]
        /\ UNCHANGED <<object, key>>
    BY <1>6 DEF Published, TypeOK
  <2>2. secret' \in [owner : Uids, key : KeyPairs]
    BY <2>1
  <2>3. Own'
    BY <1>6, <2>1, <2>2 DEF Published, Own, Distinct
  <2>4. TypeOK'
    BY <2>1, <2>2 DEF TypeOK
  <2>5. QED
    BY <1>6, <2>1, <2>3, <2>4 DEF Published, Opens, StartsAnew
<1>7. CASE Forgotten
  BY <1>7 DEF Forgotten, TypeOK, Opens, StartsAnew, Own
<1>8. CASE UNCHANGED machine
  BY <1>8 DEF machine, TypeOK, Opens, StartsAnew, Own
<1>9. QED
  BY <1>1, <1>2, <1>3, <1>4, <1>5, <1>6, <1>7, <1>8 DEF Next

\* The secret of an object opens its instance; and where objects go after their
\* instances nothing of a former object, instance or key, reaches the next.
THEOREM PromiseKept == Distinct => (Spec => [](Opens /\ StartsAnew))
<1>1. SUFFICES ASSUME Distinct PROVE Spec => [](Opens /\ StartsAnew)
  OBVIOUS
<1>2. MachineInv /\ [Next]_machine => MachineInv'
  BY <1>1, MachineNext
<1>3. MachineInv => Opens /\ StartsAnew
  BY DEF MachineInv
<1>4. QED
  BY <1>2, <1>3, MachineInit, PTL DEF Spec

=============================================================================

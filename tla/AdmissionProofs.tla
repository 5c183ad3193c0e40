--------------------------- MODULE AdmissionProofs ---------------------------
(* Theorems about Admission, for any clients, specs and finalizers. *)
EXTENDS Admission, TLAPS

-----------------------------------------------------------------------------
(* Types.                                                                  *)

\* Requests are well-typed if the one that changes is.
LEMMA BecomeType ==
  ASSUME TypeOK, NEW c \in Clients, NEW r \in Request, Become(c, r)
  PROVE  request' \in [Clients -> Request]
BY DEF TypeOK, Become

LEMMA AnsweredType == Answered \in Request
BY DEF Answered, Request, Stages

\* So is one that goes on.
LEMMA GotoType ==
  ASSUME NEW r \in Request, NEW stage \in Stages
  PROVE  [r EXCEPT !.at = stage] \in Request
BY DEF Request

\* A patch may leave out the spec or the finalizers.
LEMMA PatchType ==
  ASSUME NEW s \in Specs \cup {None}, NEW f \in {None} \cup SUBSET Finalizers
  PROVE  [Answered EXCEPT !.at = "read", !.spec = s, !.finalizers = f] \in Request
<1>1. [Answered EXCEPT !.at = "read"] \in Request
  BY AnsweredType, GotoType DEF Stages
<1>2. [[Answered EXCEPT !.at = "read"] EXCEPT !.spec = s] \in Request
  BY <1>1 DEF Request
<1>3. ASSUME NEW r \in Request PROVE [r EXCEPT !.finalizers = f] \in Request
  BY <1>3, Zenon DEF Request
<1>4. [[[Answered EXCEPT !.at = "read"] EXCEPT !.spec = s] EXCEPT !.finalizers = f]
        \in Request
  BY <1>2, <1>3
<1>5. QED
  BY <1>4, Zenon DEF Answered

\* What a request makes of the object that was read.
LEMMA ProposedType ==
  ASSUME TypeOK, NEW c \in Clients, request[c].old # None
  PROVE  /\ Proposed(c) \in Object
         /\ Proposed(c).uid = request[c].old.uid
         /\ Proposed(c).deleting = request[c].old.deleting
<1> DEFINE r == request[c]
           s == IF r.spec = None THEN r.old.spec ELSE r.spec
           f == IF r.finalizers = None THEN r.old.finalizers ELSE r.finalizers
<1>1. r.old \in Object /\ s \in Specs /\ f \in SUBSET Finalizers
  BY DEF TypeOK, Request, Object
<1>2. Proposed(c) = [r.old EXCEPT !.spec = s, !.finalizers = f]
  BY <1>1 DEF Proposed, Object
<1> HIDE DEF s, f
<1>3. [r.old EXCEPT !.spec = s] \in Object
  BY <1>1 DEF Object
<1>4. [[r.old EXCEPT !.spec = s] EXCEPT !.finalizers = f] \in Object
  BY <1>1, <1>3, Zenon DEF Object
<1>5. Proposed(c) = [[r.old EXCEPT !.spec = s] EXCEPT !.finalizers = f]
  BY <1>1, <1>2 DEF Object
<1>6. QED
  BY <1>1, <1>2, <1>4, <1>5 DEF Object

\* The next revision, given to an object, is a revision.
LEMMA ReviseType ==
  ASSUME TypeOK, Revise
  PROVE  revision' \in Revisions /\ revision' \in 0 .. MaxRevision
BY BoundAssumption DEF TypeOK, Revise, Revisions

LEMMA VersionType ==
  ASSUME NEW o \in Object, NEW v \in Revisions
  PROVE  [o EXCEPT !.resourceVersion = v] \in Object
BY DEF Object

LEMMA StatusType ==
  ASSUME NEW o \in Object, NEW v \in Revisions, NEW b \in BOOLEAN
  PROVE  [o EXCEPT !.readable = b, !.resourceVersion = v] \in Object
<1>1. [o EXCEPT !.readable = b] \in Object
  BY Zenon DEF Object
<1>2. [[o EXCEPT !.readable = b] EXCEPT !.resourceVersion = v] \in Object
  BY <1>1, VersionType
<1>3. QED
  BY <1>2, Zenon

\* Steps that only change requests.
LEMMA RequestType ==
  ASSUME TypeOK, Reviewed, NEW c \in Clients,
         Post(c) \/ Put(c) \/ Patch(c) \/ handle(c) \/ Unreviewed(c) \/ Read(c)
  PROVE  TypeOK'
<1>1. request[c] \in Request
  BY DEF TypeOK
<1>2. UNCHANGED <<stored, revision>>
  BY DEF Post, Put, Patch, handle, mutate, validate, Unreviewed, Read
<1>3. Answer(c) => request' \in [Clients -> Request]
  BY AnsweredType, BecomeType DEF Answer
<1>4. ASSUME NEW stage \in Stages, Goto(c, stage)
      PROVE  request' \in [Clients -> Request]
  BY <1>1, <1>4, GotoType, BecomeType DEF Goto
<1>5. CASE Post(c)
  <2>1. PICK s \in Specs, f \in SUBSET Finalizers, b \in BOOLEAN :
           Become(c, [Answered EXCEPT !.at = "mutate", !.spec = s, !.finalizers = f,
                                      !.readable = b])
    BY <1>5 DEF Post
  <2>2. [Answered EXCEPT !.at = "mutate", !.spec = s, !.finalizers = f,
                         !.readable = b] \in Request
    <3> DEFINE q == [Answered EXCEPT !.at = "mutate", !.spec = s, !.finalizers = f]
    <3>1. q \in Request
      BY DEF Answered, Request, Stages
    <3> HIDE DEF q
    <3>2. [q EXCEPT !.readable = b] \in Request
      BY <3>1, Zenon DEF Request
    <3>3. QED
      BY <3>2, Zenon DEF q
  <2>3. QED
    BY <1>2, <2>1, <2>2, BecomeType DEF TypeOK
<1>6. CASE Put(c)
  <2>1. PICK s \in Specs, f \in SUBSET Finalizers :
           Become(c, [Answered EXCEPT !.at = "read", !.spec = s, !.finalizers = f,
                                      !.base = stored.resourceVersion])
    BY <1>6 DEF Put
  <2>2. stored.resourceVersion \in Revisions
    BY <1>6 DEF Put, TypeOK, Object
  <2>3. [Answered EXCEPT !.at = "read", !.spec = s, !.finalizers = f,
                         !.base = stored.resourceVersion] \in Request
    BY <2>2 DEF Answered, Request, Stages
  <2>4. QED
    BY <1>2, <2>1, <2>3, BecomeType DEF TypeOK
<1>7. CASE Patch(c)
  <2>1. PICK s \in Specs \cup {None}, f \in {None} \cup SUBSET Finalizers :
           Become(c, [Answered EXCEPT !.at = "read", !.spec = s, !.finalizers = f])
    BY <1>7 DEF Patch
  <2>2. [Answered EXCEPT !.at = "read", !.spec = s, !.finalizers = f] \in Request
    BY PatchType
  <2>3. QED
    BY <1>2, <2>1, <2>2, BecomeType DEF TypeOK
<1>8. CASE mutate(c) /\ deserialize(request[c])
  <2> DEFINE f == request[c].finalizers \cup {VirtualMachineFinalizer}
  <2>1. CASE request[c].finalizers \in SUBSET Finalizers
    <3>1. f \in SUBSET Finalizers /\ "create" \in Stages
      BY <2>1 DEF Finalizers, Stages
    <3>2. Become(c, [request[c] EXCEPT !.at = "create", !.finalizers = f])
      BY <1>1, <1>8 DEF mutate, Request
    <3> HIDE DEF f
    <3>3. [request[c] EXCEPT !.at = "create", !.finalizers = f] \in Request
      BY <1>1, <3>1 DEF Request
    <3>4. QED
      BY <1>2, <3>2, <3>3, BecomeType DEF TypeOK
  <2>2. QED
    BY <1>1, <1>8, <2>1 DEF mutate, At, Request, Reviewed, PastReview
<1>9. CASE mutate(c) /\ ~deserialize(request[c])
  BY <1>2, <1>3, <1>9 DEF mutate, TypeOK
<1>10. CASE validate(c)
  BY <1>2, <1>3, <1>4, <1>10 DEF validate, TypeOK, Stages
<1>11. CASE Unreviewed(c)
  BY <1>2, <1>3, <1>11 DEF Unreviewed, TypeOK
<1>12. CASE Read(c)
  <2>1. ASSUME stored # None,
               Become(c, [request[c] EXCEPT !.at = "validate", !.old = stored])
        PROVE  request' \in [Clients -> Request]
    <3>1. stored \in Object /\ "validate" \in Stages
      BY <2>1 DEF TypeOK, Stages
    <3>2. [request[c] EXCEPT !.at = "validate", !.old = stored] \in Request
      BY <1>1, <3>1 DEF Request
    <3>3. QED
      BY <2>1, <3>2, BecomeType
  <2>2. QED
    BY <1>2, <1>3, <1>12, <2>1 DEF Read, TypeOK
<1>13. QED
  BY <1>5, <1>6, <1>7, <1>8, <1>9, <1>10, <1>11, <1>12 DEF handle

\* Steps that write the object: those of requests, and the others.
LEMMA StoreType ==
  ASSUME TypeOK, Reviewed, NEW c \in Clients,
         Create(c) \/ Write(c)
  PROVE  TypeOK'
<1>1. request[c] \in Request
  BY DEF TypeOK
<1>2. Answer(c) => request' \in [Clients -> Request]
  BY AnsweredType, BecomeType DEF Answer
<1>3. CASE Create(c)
  <2>1. CASE UNCHANGED <<stored, revision>>
    BY <1>2, <1>3, <2>1 DEF Create, TypeOK
  <2>2. CASE Revise /\ stored' = [uid |-> revision', resourceVersion |-> revision',
                                 deleting |-> FALSE,
                                 finalizers |-> request[c].finalizers,
                                 spec |-> request[c].spec,
                                 readable |-> TRUE]
    <3>1. request[c].finalizers \in SUBSET Finalizers /\ request[c].spec \in Specs
      BY <1>1, <1>3 DEF Create, At, Reviewed, PastReview, Request
    <3>2. revision' \in Revisions /\ revision' \in 0 .. MaxRevision
      BY <2>2, ReviseType
    <3>3. stored' \in Object
      BY <2>2, <3>1, <3>2 DEF Object
    <3>4. QED
      BY <1>2, <1>3, <3>2, <3>3 DEF Create, TypeOK
  <2>3. QED
    BY <1>3, <2>1, <2>2 DEF Create
<1>4. CASE Write(c)
  <2>1. CASE UNCHANGED <<stored, revision>>
    <3>1. [request[c] EXCEPT !.at = "read"] \in Request
      BY <1>1, GotoType DEF Stages
    <3>2. Goto(c, "read") => request' \in [Clients -> Request]
      BY <3>1, BecomeType DEF Goto
    <3>3. QED
      BY <1>2, <1>4, <2>1, <3>2 DEF Write, TypeOK
  <2>2. CASE Answer(c) /\ Revise
             /\ stored' = IF stored.deleting /\ Proposed(c).finalizers = {}
                          THEN None
                          ELSE [Proposed(c) EXCEPT !.resourceVersion = revision']
    <3>1. revision' \in Revisions /\ revision' \in 0 .. MaxRevision
      BY <2>2, ReviseType
    <3>2. Proposed(c) \in Object
      BY <1>4, ProposedType DEF Write, At, Reviewed, PastReview
    <3>3. [Proposed(c) EXCEPT !.resourceVersion = revision'] \in Object
      BY <3>1, <3>2, VersionType
    <3>4. QED
      BY <1>2, <2>2, <3>1, <3>3 DEF TypeOK
  <2>3. QED
    BY <1>4, <2>1, <2>2 DEF Write
<1>5. QED
  BY <1>3, <1>4

LEMMA StoreTypeAlone ==
  ASSUME TypeOK, UpdateStatus \/ Delete
  PROVE  TypeOK'
<1>1. stored \in Object /\ Revise
  BY DEF UpdateStatus, Delete, TypeOK
<1>2. revision' \in Revisions /\ revision' \in 0 .. MaxRevision
  BY <1>1, ReviseType
<1>3. \A b \in BOOLEAN :
         [stored EXCEPT !.readable = b, !.resourceVersion = revision'] \in Object
  BY <1>1, <1>2, StatusType
<1>4. [stored EXCEPT !.deleting = TRUE, !.resourceVersion = revision'] \in Object
  BY <1>1, <1>2, Zenon DEF Object
<1>5. QED
  BY <1>2, <1>3, <1>4 DEF UpdateStatus, Delete, TypeOK

-----------------------------------------------------------------------------
(* What is stored was reviewed.                                            *)

\* The other requests are where they were.
LEMMA OtherRequests ==
  ASSUME TypeOK, Reviewed, NEW c \in Clients, NEW r, Become(c, r), PastReview(c)'
  PROVE  Reviewed'
<1>1. ASSUME NEW d \in Clients, d # c PROVE PastReview(d)'
  <2>1. request'[d] = request[d]
    BY <1>1 DEF Become, TypeOK
  <2>2. Proposed(d)' = Proposed(d)
    BY <2>1 DEF Proposed
  <2>3. QED
    BY <2>1, <2>2 DEF Reviewed, PastReview
<1>2. QED
  BY <1>1 DEF Reviewed

\* A request goes on only with what its review asks for.
LEMMA ReviewedNext ==
  ASSUME IInv, [Next]_vars
  PROVE  Reviewed'
<1> USE DEF IInv
<1>1. ASSUME NEW c \in Clients, Answer(c) PROVE Reviewed'
  <2>1. request'[c].at = "idle"
    BY <1>1 DEF Answer, Become, Answered, TypeOK
  <2>2. PastReview(c)'
    BY <2>1 DEF PastReview
  <2>3. QED
    BY <1>1, <2>2, OtherRequests DEF Answer
<1>2. ASSUME NEW c \in Clients, Post(c) PROVE Reviewed'
  <2>1. PICK s \in Specs, f \in SUBSET Finalizers, b \in BOOLEAN :
           Become(c, [Answered EXCEPT !.at = "mutate", !.spec = s, !.finalizers = f,
                                      !.readable = b])
    BY <1>2 DEF Post
  <2>2. /\ request'[c].at = "mutate" /\ request'[c].spec = s
        /\ request'[c].finalizers = f
    BY <2>1 DEF Become, Answered, TypeOK
  <2>3. s # None /\ f # None
    BY NoneAssumption
  <2>4. PastReview(c)'
    BY <2>2, <2>3 DEF PastReview
  <2>5. QED
    BY <2>1, <2>4, OtherRequests
<1>3. ASSUME NEW c \in Clients, Put(c) \/ Patch(c) PROVE Reviewed'
  <2>1. \E r : Become(c, r) /\ r.at = "read"
    <3>1. CASE Put(c)
      <4>1. PICK s \in Specs, f \in SUBSET Finalizers :
               Become(c, [Answered EXCEPT !.at = "read", !.spec = s, !.finalizers = f,
                                          !.base = stored.resourceVersion])
        BY <3>1 DEF Put
      <4>2. [Answered EXCEPT !.at = "read", !.spec = s, !.finalizers = f,
                             !.base = stored.resourceVersion].at = "read"
        BY DEF Answered
      <4>3. QED
        BY <4>1, <4>2
    <3>2. CASE Patch(c)
      <4>1. PICK s \in Specs \cup {None}, f \in {None} \cup SUBSET Finalizers :
               Become(c, [Answered EXCEPT !.at = "read", !.spec = s, !.finalizers = f])
        BY <3>2 DEF Patch
      <4>2. [Answered EXCEPT !.at = "read", !.spec = s, !.finalizers = f].at = "read"
        BY DEF Answered
      <4>3. QED
        BY <4>1, <4>2
    <3>3. QED
      BY <1>3, <3>1, <3>2
  <2>2. request'[c].at = "read"
    BY <2>1 DEF Become, TypeOK
  <2>3. PastReview(c)'
    BY <2>2 DEF PastReview
  <2>4. QED
    BY <2>1, <2>3, OtherRequests
<1>4. ASSUME NEW c \in Clients, NEW stage \in {"read", "write"}, Goto(c, stage),
             stage = "write" => /\ request[c].old # None
                                /\ deserialize(request[c].old)
                                /\ Proposed(c).spec = request[c].old.spec
      PROVE  Reviewed'
  <2>1. /\ request'[c].at = stage /\ request'[c].spec = request[c].spec
        /\ request'[c].finalizers = request[c].finalizers
        /\ request'[c].old = request[c].old
    BY <1>4 DEF Goto, Become, TypeOK, Request
  <2>2. Proposed(c)' = Proposed(c)
    BY <2>1 DEF Proposed
  <2>3. PastReview(c)'
    BY <1>4, <2>1, <2>2 DEF PastReview
  <2>4. QED
    BY <1>4, <2>3, OtherRequests DEF Goto
<1>5. ASSUME NEW c \in Clients, mutate(c) PROVE Reviewed'
  <2>1. CASE deserialize(request[c])
    <3>1. PICK r : /\ Become(c, r)
                   /\ r = [request[c] EXCEPT
                             !.at = "create",
                             !.finalizers = @ \cup {VirtualMachineFinalizer}]
      BY <1>5, <2>1 DEF mutate
    <3>2. /\ r.at = "create" /\ r.spec = request[c].spec
          /\ r.finalizers = request[c].finalizers \cup {VirtualMachineFinalizer}
      BY <3>1 DEF TypeOK, Request
    <3>3. request[c].spec # None /\ request[c].finalizers # None
      BY <1>5 DEF mutate, At, Reviewed, PastReview
    <3>4. request[c].finalizers \cup {VirtualMachineFinalizer} \in SUBSET Finalizers
      BY <3>3 DEF TypeOK, Request, Finalizers
    <3>5. r.finalizers # None
      BY <3>2, <3>4, NoneAssumption
    <3>6. request'[c] = r
      BY <3>1 DEF Become, TypeOK
    <3>7. deserialize(r)
      <4>1. request[c].spec \notin Malformed /\ request[c].readable
        BY <2>1 DEF deserialize
      <4>2. r.readable = request[c].readable
        BY <3>1, Zenon DEF TypeOK, Request
      <4>3. QED
        BY <3>2, <4>1, <4>2, Zenon DEF deserialize
    <3>8. PastReview(c)'
      BY <3>2, <3>3, <3>5, <3>6, <3>7 DEF PastReview
    <3>9. QED
      BY <3>1, <3>8, OtherRequests
  <2>2. QED
    BY <1>1, <1>5, <2>1 DEF mutate
<1>6. ASSUME NEW c \in Clients, validate(c) PROVE Reviewed'
  <2>1. request[c].old # None
    BY <1>6 DEF validate, At, Reviewed, PastReview
  <2>2. QED
    BY <1>1, <1>4, <1>6, <2>1 DEF validate
<1>7. ASSUME NEW c \in Clients, Read(c) PROVE Reviewed'
  <2>1. CASE /\ stored # None
             /\ Become(c, [request[c] EXCEPT !.at = "validate", !.old = stored])
    <3>1. request'[c].at = "validate" /\ request'[c].old = stored
      BY <2>1 DEF Become, TypeOK, Request
    <3>2. PastReview(c)'
      BY <2>1, <3>1 DEF PastReview
    <3>3. QED
      BY <2>1, <3>2, OtherRequests
  <2>2. QED
    BY <1>1, <1>7, <2>1 DEF Read
<1>8. ASSUME NEW c \in Clients, Unreviewed(c) \/ Create(c) \/ Write(c) PROVE Reviewed'
  BY <1>1, <1>4, <1>8 DEF Unreviewed, Create, Write
<1>9. ASSUME UNCHANGED request PROVE Reviewed'
  BY <1>9 DEF Reviewed, PastReview, Proposed
<1>10. CASE UNCHANGED vars
  BY <1>9, <1>10 DEF vars
<1>11. QED
  BY <1>2, <1>3, <1>5, <1>6, <1>7, <1>8, <1>9, <1>10
     DEF Next, handle, UpdateStatus, Delete

-----------------------------------------------------------------------------
(* The object.                                                             *)

\* What a step may make of an object that is there, seen from the next state: it
\* keeps its spec.
LEMMA SpecStep ==
  ASSUME IInv, [Next]_vars, stored # None, stored' # None
  PROVE  stored'.spec = stored.spec
<1>1. stored \in Object
  BY DEF IInv, TypeOK
<1>2. ASSUME NEW c \in Clients, Write(c) PROVE stored'.spec = stored.spec
  <2>1. Proposed(c).spec = request[c].old.spec /\ request[c].old # None
    BY <1>2 DEF Write, At, IInv, Reviewed, PastReview
  <2>2. Proposed(c) \in Object
    BY <2>1, ProposedType DEF IInv
  <2>3. [Proposed(c) EXCEPT !.resourceVersion = revision'].spec = Proposed(c).spec
    BY <2>2 DEF Object
  <2>4. QED
    BY <1>2, <2>1, <2>3 DEF Write
<1>3. ASSUME NEW c \in Clients, Create(c) PROVE stored'.spec = stored.spec
  BY <1>3 DEF Create
<1>4. CASE UpdateStatus \/ Delete
  BY <1>1, <1>4 DEF UpdateStatus, Delete, Object
<1>5. ASSUME UNCHANGED stored PROVE stored'.spec = stored.spec
  BY <1>5
<1>6. QED
  BY <1>2, <1>3, <1>4, <1>5
     DEF Next, vars, Post, Put, Patch, handle, mutate, validate, Unreviewed, Read

LEMMA StoredSpecsNext ==
  ASSUME IInv, [Next]_vars
  PROVE  StoredSpecsDecode'
<1>1. CASE stored # None
  BY <1>1, SpecStep DEF StoredSpecsDecode, IInv
<1>2. CASE stored = None
  <2>1. ASSUME NEW c \in Clients, Create(c), stored' # None PROVE stored'.spec \notin Malformed
    BY <1>2, <2>1 DEF Create, At, IInv, Reviewed, PastReview, deserialize
  <2>2. ASSUME NEW c \in Clients, Write(c) PROVE UNCHANGED stored
    BY <1>2, <2>2 DEF Write, At, IInv, Reviewed, PastReview
  <2>3. QED
    BY <1>2, <2>1, <2>2
       DEF Next, vars, Post, Put, Patch, handle, mutate, validate, Unreviewed,
           Read, UpdateStatus, Delete, StoredSpecsDecode
<1>3. QED
  BY <1>1, <1>2

LEMMA IInvInit == Init => IInv
<1> SUFFICES ASSUME Init PROVE IInv
  OBVIOUS
<1>1. request \in [Clients -> Request]
  BY AnsweredType DEF Init
<1>2. revision \in 0 .. MaxRevision
  BY BoundAssumption DEF Init
<1>3. Reviewed
  BY DEF Init, Answered, Reviewed, PastReview
<1>4. QED
  BY <1>1, <1>2, <1>3 DEF Init, IInv, TypeOK, StoredSpecsDecode

LEMMA TypeNext ==
  ASSUME IInv, [Next]_vars
  PROVE  TypeOK'
<1>1. CASE UNCHANGED vars
  BY <1>1 DEF vars, IInv, TypeOK
<1>2. CASE UpdateStatus \/ Delete
  BY <1>2, StoreTypeAlone DEF IInv
<1>3. QED
  BY <1>1, <1>2, RequestType, StoreType DEF IInv, Next

-----------------------------------------------------------------------------
(* Theorems.                                                               *)

\* Whatever is under way, a request is only stored with what its review found
\* in order, and stored objects decode.
THEOREM ReviewsCover == Spec => []IInv
<1>1. IInv /\ [Next]_vars => IInv'
  BY TypeNext, ReviewedNext, StoredSpecsNext DEF IInv
<1>2. QED
  BY <1>1, IInvInit, PTL DEF Spec

\* validate keeps the spec of an object, although it compares the new object with
\* one that others may have replaced by the time the new one is stored.
THEOREM SpecsAreKept == Spec => SpecKept
<1>1. IInv /\ [Next]_vars =>
        (stored # None /\ stored' # None /\ stored'.uid = stored.uid
           => stored'.spec = stored.spec)
  BY SpecStep
<1>2. QED
  BY <1>1, ReviewsCover, PTL DEF Spec, SpecKept

\* mutate and validate let no spec be stored that the controller could not
\* read; the status of an object is not theirs to see.
THEOREM SpecsDecode == Spec => []StoredSpecsDecode
<1>1. IInv => StoredSpecsDecode
  BY DEF IInv
<1>2. QED
  BY <1>1, ReviewsCover, PTL

\* What a step makes of an object that does not decode.
LEMMA UnreadableStep ==
  ASSUME IInv, [Next]_vars, stored # None, ~deserialize(stored)
  PROVE  \/ stored' # None /\ stored'.finalizers = stored.finalizers
         \/ stored' = None /\ stored.finalizers = {}
<1>1. stored \in Object
  BY DEF IInv, TypeOK
<1>2. ASSUME NEW c \in Clients, Write(c) PROVE UNCHANGED stored
  <2>1. request[c].old # stored
    BY <1>2 DEF Write, At, IInv, Reviewed, PastReview
  <2>2. QED
    BY <1>2, <2>1 DEF Write
<1>3. ASSUME NEW c \in Clients, Create(c) PROVE UNCHANGED stored
  BY <1>3 DEF Create
<1>4. CASE UpdateStatus
  <2>1. PICK b \in BOOLEAN :
           stored' = [stored EXCEPT !.readable = b, !.resourceVersion = revision']
    BY <1>4 DEF UpdateStatus
  <2>2. revision' \in Revisions
    BY <1>4, ReviseType DEF UpdateStatus, IInv
  <2>3. stored' # None
    BY <1>1, <2>1, <2>2, StatusType, NoneAssumption
  <2>4. QED
    BY <1>1, <2>1, <2>3 DEF Object
<1>5. CASE Delete
  <2>1. revision' \in Revisions
    BY <1>5, ReviseType DEF Delete, IInv
  <2>2. [stored EXCEPT !.deleting = TRUE, !.resourceVersion = revision'] \in Object
    BY <1>1, <2>1, Zenon DEF Object
  <2>3. [stored EXCEPT !.deleting = TRUE, !.resourceVersion = revision'] # None
    BY <2>2, NoneAssumption
  <2>4. QED
    BY <1>1, <1>5, <2>3 DEF Delete, Object
<1>6. CASE UNCHANGED stored
  BY <1>6
<1>7. QED
  BY <1>2, <1>3, <1>4, <1>5, <1>6
     DEF Next, vars, Post, Put, Patch, handle, mutate, validate, Unreviewed, Read

\* validate refuses what it cannot read, and the API server stores nothing that
\* was reviewed against another version: an object with such a status stays.
THEOREM UnreadableObjectsStay == Spec => UnreadableKept
<1>1. IInv /\ [Next]_vars =>
        (stored # None /\ ~deserialize(stored)
           => \/ stored' # None /\ stored'.finalizers = stored.finalizers
              \/ stored' = None /\ stored.finalizers = {})
  BY UnreadableStep
<1>2. QED
  BY <1>1, ReviewsCover, PTL DEF Spec, UnreadableKept

\* The object as ObjectLife sees it.
Seen == IF stored = None THEN None
        ELSE [uid |-> stored.uid, deleting |-> stored.deleting,
              finalizers |-> stored.finalizers]

\* None is no such record, because it is no object.
LEMMA SeenSomething ==
  ASSUME stored # None, stored \in Object
  PROVE  Seen # None
BY NoneAssumption DEF Seen, Object

LEMMA CreateImplements ==
  ASSUME IInv, NEW c \in Clients, Create(c)
  PROVE  Life!Born \/ UNCHANGED Seen
<1>1. CASE UNCHANGED stored
  BY <1>1 DEF Seen
<1>2. CASE stored = None /\ Revise
           /\ stored' = [uid |-> revision', resourceVersion |-> revision',
                         deleting |-> FALSE,
                         finalizers |-> request[c].finalizers,
                         spec |-> request[c].spec,
                         readable |-> TRUE]
  <2> DEFINE f == request[c].finalizers
  <2>1. /\ f \in SUBSET Finalizers /\ f = f \cup {VirtualMachineFinalizer}
        /\ request[c].spec \in Specs
    BY DEF Create, At, IInv, TypeOK, Request, Reviewed, PastReview
  <2>2. revision' \in Revisions
    BY <1>2, ReviseType DEF IInv
  <2>3. stored' \in Object
    BY <1>2, <2>1, <2>2 DEF Object
  <2>4. stored' # None
    BY <2>3, NoneAssumption
  <2>5. Seen' = [uid |-> revision', deleting |-> FALSE, finalizers |-> f]
    BY <1>2, <2>4 DEF Seen
  <2>6. QED
    BY <1>2, <2>1, <2>2, <2>5 DEF Life!Born, Seen
<1>3. QED
  BY <1>1, <1>2 DEF Create

LEMMA WriteImplements ==
  ASSUME IInv, NEW c \in Clients, Write(c)
  PROVE  Life!Written \/ Life!Gone \/ UNCHANGED Seen
<1>1. CASE UNCHANGED stored
  BY <1>1 DEF Seen
<1>2. CASE /\ ~Forbidden(c)
           /\ stored = request[c].old
           /\ Revise
           /\ stored' = IF stored.deleting /\ Proposed(c).finalizers = {}
                        THEN None
                        ELSE [Proposed(c) EXCEPT !.resourceVersion = revision']
  <2> DEFINE f == Proposed(c).finalizers
             new == [Proposed(c) EXCEPT !.resourceVersion = revision']
  <2>1. request[c].old # None
    BY DEF Write, At, IInv, Reviewed, PastReview
  <2>2. stored # None /\ stored \in Object
    BY <1>2, <2>1 DEF IInv, TypeOK
  <2>3. /\ Proposed(c) \in Object /\ Proposed(c).uid = stored.uid
        /\ Proposed(c).deleting = stored.deleting
    BY <1>2, <2>1, ProposedType DEF IInv
  <2>4. Seen = [uid |-> stored.uid, deleting |-> stored.deleting,
                finalizers |-> stored.finalizers] /\ Seen # None
    BY <2>2, SeenSomething DEF Seen
  <2>5. CASE stored.deleting /\ f = {}
    <3>1. Seen' = None
      BY <1>2, <2>5 DEF Seen
    <3>2. Seen.deleting
      BY <2>4, <2>5
    <3>3. QED
      BY <2>4, <3>1, <3>2 DEF Life!Gone, Seen
  <2>6. CASE ~(stored.deleting /\ f = {})
    <3>1. stored' = new
      BY <1>2, <2>6
    <3>2. new \in Object
      BY <1>2, <2>3, ReviseType, VersionType DEF IInv
    <3>3. /\ new.uid = stored.uid /\ new.deleting = stored.deleting
          /\ new.finalizers = f
      BY <2>3 DEF Object
    <3>4. stored' # None
      BY <3>1, <3>2, NoneAssumption
    <3>5. Seen' = [uid |-> stored.uid, deleting |-> stored.deleting, finalizers |-> f]
      BY <3>1, <3>3, <3>4 DEF Seen
    <3>6. f \in SUBSET Finalizers
      BY <2>3 DEF Object
    <3>7. stored.deleting => f # {} /\ f \subseteq stored.finalizers
      BY <1>2, <2>6 DEF Forbidden
    <3>8. Seen' = [Seen EXCEPT !.finalizers = f]
      BY <2>4, <3>5
    <3>9. Seen.deleting => f # {} /\ f \subseteq Seen.finalizers
      BY <2>4, <3>7
    <3>10. QED
      BY <2>4, <3>6, <3>8, <3>9 DEF Life!Written, Seen
  <2>7. QED
    BY <2>5, <2>6
<1>3. QED
  BY <1>1, <1>2 DEF Write

LEMMA OthersImplement ==
  ASSUME IInv, UpdateStatus \/ Delete
  PROVE  Life!Marked \/ Life!Gone \/ UNCHANGED Seen
<1>1. stored # None /\ stored \in Object
  BY DEF UpdateStatus, Delete, IInv, TypeOK
<1>2. Seen = [uid |-> stored.uid, deleting |-> stored.deleting,
              finalizers |-> stored.finalizers] /\ Seen # None
  BY <1>1, SeenSomething DEF Seen
<1>3. revision' \in Revisions
  BY ReviseType DEF UpdateStatus, Delete, IInv
<1>4. CASE UpdateStatus
  <2>1. PICK b \in BOOLEAN :
           stored' = [stored EXCEPT !.readable = b, !.resourceVersion = revision']
    BY <1>4 DEF UpdateStatus
  <2>2. stored' # None
    BY <1>1, <1>3, <2>1, StatusType, NoneAssumption
  <2>3. QED
    BY <1>1, <1>2, <2>1, <2>2 DEF Seen, Object
<1>5. CASE stored.finalizers = {} /\ stored' = None
  BY <1>2, <1>5 DEF Seen, Life!Gone
<1>6. CASE /\ stored.finalizers # {}
           /\ stored' = [stored EXCEPT !.deleting = TRUE, !.resourceVersion = revision']
  <2>1. stored' \in Object
    BY <1>1, <1>3, <1>6, Zenon DEF Object
  <2>2. stored' # None
    BY <2>1, NoneAssumption
  <2>3. /\ stored'.uid = stored.uid /\ stored'.deleting = TRUE
        /\ stored'.finalizers = stored.finalizers
    BY <1>1, <1>6 DEF Object
  <2>4. Seen' = [Seen EXCEPT !.deleting = TRUE]
    <3>1. Seen' = [uid |-> stored.uid, deleting |-> TRUE,
                   finalizers |-> stored.finalizers]
      BY <2>2, <2>3, Zenon DEF Seen
    <3>2. PICK t : t = TRUE
      OBVIOUS
    <3>3. [Seen EXCEPT !.deleting = t] =
            [uid |-> stored.uid, deleting |-> t, finalizers |-> stored.finalizers]
      BY <1>2
    <3>4. QED
      BY <3>1, <3>2, <3>3, Zenon
  <2>5. Seen.finalizers # {}
    BY <1>2, <1>6
  <2>6. QED
    BY <1>2, <2>4, <2>5 DEF Life!Marked, Seen
<1>7. QED
  BY <1>4, <1>5, <1>6 DEF UpdateStatus, Delete

\* Every step of the reviews, the clients and the API server is one in the life
\* of the object, or none.
THEOREM AdmissionImplementsObjectLife == Spec => ObjectLives
<1>1. Init => Life!Init
  BY DEF Init, Life!Init
<1>2. IInv /\ [Next]_vars => [Life!Next]_Seen
  BY CreateImplements, WriteImplements, OthersImplement
     DEF Next, vars, Post, Put, Patch, handle, mutate, validate, Unreviewed, Read,
         Life!Next, Seen
<1>3. QED
  BY <1>1, <1>2, ReviewsCover, PTL DEF Spec, ObjectLives, Life!Spec, Seen

=============================================================================

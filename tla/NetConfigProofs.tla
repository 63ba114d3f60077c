--------------------------- MODULE NetConfigProofs ---------------------------
(***************************************************************************)
(* Acknowledged credentials that fit their fields are saved ones, and only *)
(* whole objects are saved, for every size of the buffer, every length of  *)
(* the body and every way the pieces come, through failures of the storage *)
(* and of the power.                                                       *)
(***************************************************************************)
EXTENDS NetConfig, TLAPS

\* No byte of the body is counted twice or not at all; what is about to be saved
\* is a whole object, and what is about to be acknowledged is saved.
Progress ==
  /\ pc \in {"receive", "test", "parse"} => left + total = body.length
  /\ pc = "save" => /\ ram = Kept(body.says)
                    /\ body.valid /\ body.length - left >= body.object
  /\ pc = "commit" => nvs = Kept(body.says)

\* What was acknowledged is saved as network_data held it, fitting or not.
AcknowledgedIsKept == told # None => nvs = Kept(told)

IInv == TypeOK /\ Progress /\ AcknowledgedIsKept
-----------------------------------------------------------------------------
LEMMA BodyTyped == TypeOK => /\ body.says \in Credentials /\ body.says # None
                             /\ body.length \in 1 .. MaxLength
                             /\ body.object \in 1 .. MaxLength
                             /\ Kept(body.says) \in Credentials \union {Mangled}
BY NetConfigAssumption DEF TypeOK, Body, Kept

LEMMA InitIInv == Init => IInv
BY NetConfigAssumption DEF Init, IInv, TypeOK, Progress, AcknowledgedIsKept

LEMMA PostKeeps == ASSUME IInv, NEW b \in Body, Post(b) PROVE IInv'
<1>1. b.length \in 1 .. MaxLength
  BY DEF Body
<1>2. TypeOK'
  <2>1. left' \in 0 .. MaxLength /\ total' \in 0 .. BufferSize - 1
    BY NetConfigAssumption, <1>1 DEF Post
  <2> QED
    BY <2>1 DEF IInv, TypeOK, Post
<1>3. Progress' /\ AcknowledgedIsKept'
  BY <1>1 DEF IInv, Progress, AcknowledgedIsKept, Post
<1> QED
  BY <1>2, <1>3 DEF IInv

LEMMA ReceiveKeeps == IInv /\ Receive => IInv'
<1> SUFFICES ASSUME IInv, Receive PROVE IInv'
  OBVIOUS
<1>1. PICK n \in 0 .. MaxLength :
        n <= left /\ n <= Room /\ ret' = n /\ left' = left - n /\ total' = total + n
  BY DEF Receive
<1>2. /\ left \in 0 .. MaxLength /\ total \in 0 .. BufferSize - 1
      /\ left + total = body.length /\ body.length \in 1 .. MaxLength
  BY BodyTyped DEF IInv, TypeOK, Progress, Receive
<1>3. /\ left' \in 0 .. MaxLength /\ total' \in 0 .. BufferSize - 1
      /\ left' + total' = left + total
  BY NetConfigAssumption, <1>1, <1>2 DEF Room
<1>4. TypeOK'
  BY <1>1, <1>3 DEF IInv, TypeOK, Receive
<1>5. Progress' /\ AcknowledgedIsKept'
  BY <1>2, <1>3 DEF IInv, Progress, AcknowledgedIsKept, Receive
<1> QED
  BY <1>4, <1>5 DEF IInv

\* The handler's steps that leave body and storage alone.
LEMMA PassingKeeps ==
  IInv /\ (ReceiveTimeout \/ ReceiveError \/ Test \/ Refuse) => IInv'
<1> SUFFICES ASSUME IInv, ReceiveTimeout \/ ReceiveError \/ Test \/ Refuse PROVE IInv'
  OBVIOUS
<1>1. TypeOK'
  BY DEF IInv, TypeOK, ReceiveTimeout, ReceiveError, Test, Refuse
<1>2. Progress' /\ AcknowledgedIsKept'
  BY DEF IInv, Progress, AcknowledgedIsKept, ReceiveTimeout, ReceiveError, Test, Refuse
<1> QED
  BY <1>1, <1>2 DEF IInv

\* What is parsed has its object whole.
LEMMA CopyKeeps == IInv /\ Copy => IInv'
<1> SUFFICES ASSUME IInv, Copy PROVE IInv'
  OBVIOUS
<1>1. body.valid /\ body.length - left >= body.object
  <2>1. /\ left \in 0 .. MaxLength /\ body.length \in 1 .. MaxLength
        /\ body.object \in 1 .. MaxLength /\ total \in 0 .. BufferSize - 1
        /\ left + total = body.length /\ total >= body.object /\ body.valid
    BY BodyTyped DEF IInv, TypeOK, Progress, Copy, Parses
  <2> QED
    BY NetConfigAssumption, <2>1
<1>2. TypeOK'
  BY BodyTyped DEF IInv, TypeOK, Copy
<1>3. Progress' /\ AcknowledgedIsKept'
  BY <1>1 DEF IInv, Progress, AcknowledgedIsKept, Copy, Parses
<1> QED
  BY <1>2, <1>3 DEF IInv

LEMMA SaveKeeps == IInv /\ (SaveFails \/ SetBlob \/ Commit) => IInv'
<1> SUFFICES ASSUME IInv, SaveFails \/ SetBlob \/ Commit PROVE IInv'
  OBVIOUS
<1>1. CASE SaveFails
  <2>1. reply' = "server error" /\ told' = told
    BY <1>1 DEF SaveFails, Reply
  <2> QED
    BY <1>1, <2>1 DEF IInv, TypeOK, Progress, AcknowledgedIsKept, SaveFails
<1>2. CASE SetBlob
  BY <1>2, BodyTyped DEF IInv, TypeOK, Progress, AcknowledgedIsKept, SetBlob
<1>3. CASE Commit
  <2>1. reply' \in {"set", "server error"} /\ told' \in {body.says, told}
        /\ pc' = "idle" /\ nvs' = nvs /\ nvs = Kept(body.says) /\ UNCHANGED body
    BY <1>3 DEF Commit, Reply, IInv, Progress
  <2> QED
    BY <1>3, <2>1, BodyTyped DEF IInv, TypeOK, Progress, AcknowledgedIsKept, Commit
<1> QED
  BY <1>1, <1>2, <1>3

LEMMA GetKeeps == IInv /\ Get => IInv'
BY DEF IInv, TypeOK, Progress, AcknowledgedIsKept, Get, Answer, requestVars

LEMMA RestartKeeps == IInv /\ Restart => IInv'
<1> SUFFICES ASSUME IInv, Restart PROVE IInv'
  OBVIOUS
<1>1. left' \in 0 .. MaxLength /\ total' \in 0 .. BufferSize - 1 /\ ret' \in 0 .. MaxLength
  BY NetConfigAssumption DEF Restart
<1>2. TypeOK'
  BY <1>1 DEF IInv, TypeOK, Restart
<1>3. Progress' /\ AcknowledgedIsKept'
  BY DEF IInv, Progress, AcknowledgedIsKept, Restart
<1> QED
  BY <1>2, <1>3 DEF IInv

LEMMA SpecIInv == Spec => []IInv
<1>1. IInv /\ [Next]_vars => IInv'
  <2> SUFFICES ASSUME IInv, [Next]_vars PROVE IInv'
    OBVIOUS
  <2>1. CASE \E b \in Body : Post(b)
    BY <2>1, PostKeeps
  <2>2. CASE Handler
    BY <2>2, ReceiveKeeps, PassingKeeps, CopyKeeps, SaveKeeps DEF Handler
  <2>3. CASE Get \/ Restart
    BY <2>3, GetKeeps, RestartKeeps
  <2>4. CASE UNCHANGED vars
    <3>1. UNCHANGED <<nvs, ram, pc, body, left, total, ret, reply, told>>
      BY <2>4 DEF vars, requestVars
    <3>2. TypeOK'
      BY <3>1 DEF IInv, TypeOK
    <3>3. Progress'
      BY <3>1 DEF IInv, Progress, Kept
    <3>4. AcknowledgedIsKept'
      BY <3>1 DEF IInv, AcknowledgedIsKept, Kept
    <3> QED
      BY <3>2, <3>3, <3>4 DEF IInv
  <2> QED
    BY <2>1, <2>2, <2>3, <2>4 DEF Next
<1> QED
  BY <1>1, InitIInv, PTL DEF Spec
-----------------------------------------------------------------------------
\* Every variable has its type: at most one byte less than the buffer holds is
\* received, so that the terminator of http_server.c:536 is within it.
THEOREM BufferHolds == Spec => []TypeOK
<1>1. IInv => TypeOK
  BY DEF IInv
<1> QED
  BY <1>1, SpecIInv, PTL

\* Credentials that fit their fields and were acknowledged are those in the
\* storage, whatever later requests, failures and restarts there were, until
\* others are saved or the storage is erased.
THEOREM AcknowledgedStaysSaved == Spec => []AcknowledgedIsSaved
<1>1. IInv => AcknowledgedIsSaved
  BY DEF IInv, AcknowledgedIsKept, AcknowledgedIsSaved, Kept
<1> QED
  BY <1>1, SpecIInv, PTL

\* Nothing reaches the storage but right objects that came whole, as they were
\* sent if they fit their fields.
THEOREM OnlyWholeObjectsSaved == Spec => OnlyWholeObjectsAreSaved
<1>1. IInv /\ [Next]_vars =>
        [nvs' \notin {nvs, None} => /\ body.valid /\ body.length - left >= body.object
                                    /\ body.says \notin Overlong => nvs' = body.says]_vars
  <2> SUFFICES ASSUME IInv, Next, nvs' \notin {nvs, None}
               PROVE  /\ body.valid /\ body.length - left >= body.object
                      /\ body.says \notin Overlong => nvs' = body.says
    OBVIOUS
  <2>1. SetBlob
    BY DEF Next, Handler, Post, Receive, ReceiveTimeout, ReceiveError, Test, Refuse, Copy,
           SaveFails, Commit, Get, Restart
  <2> QED
    BY <2>1 DEF IInv, Progress, SetBlob, Kept
<1> QED
  BY <1>1, SpecIInv, PTL DEF Spec, OnlyWholeObjectsAreSaved
=============================================================================

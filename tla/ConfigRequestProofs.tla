------------------------ MODULE ConfigRequestProofs ------------------------
(***************************************************************************)
(* Proofs for ConfigRequest, for every set of requesters and any number of *)
(* calls.  What the globals mean depends on which of the three races the   *)
(* run went through, so the invariant has one part for each.               *)
(*                                                                         *)
(* The second part is for HttpRpc, the other request and answer that plain *)
(* globals guard, for any number of commands and any size of the queue.    *)
(***************************************************************************)
EXTENDS ConfigRequest, HttpRpc, FiniteSetTheorems, TLAPS

(* Points at which a requester's object is allocated.                      *)
Holding == {"sem", "fill", "ptr", "valid", "state", "take", "wait",
            "result", "free"}

(* Objects are numbered as they are allocated, one for each call that gets *)
(* that far.                                                               *)
Numbered ==
  /\ IsFiniteSet({r \in Requesters : pc[r] = "malloc"})
  /\ allocated + Cardinality({r \in Requesters : pc[r] = "malloc"}) <= calls
  /\ live \subseteq 1..allocated
  /\ done \subseteq 1..allocated
  /\ given \subseteq 1..allocated

(* Without overlapping calls one requester is in the function, it owns the *)
(* only object, and what is published is that object's.                    *)
Heap ==
  "overlap" \notin races =>
    /\ \A q, r \in Requesters : pc[q] # "idle" /\ pc[r] # "idle" => q = r
    /\ \A r \in Requesters :
         /\ pc[r] \in Holding =>
              g_config_req_async \in 1..allocated /\ live = {g_config_req_async}
         /\ pc[r] \in {"ptr", "valid", "state", "take", "wait", "result"} =>
              owner[g_config_req_async] = r
         /\ pc[r] \in {"valid", "state", "take", "wait", "result", "free"} =>
              g_active_config_request_ptr \in {Null, g_config_req_async}
         /\ pc[r] \in {"wait", "result"} => sem[r] = g_config_req_async
    /\ (\A r \in Requesters : pc[r] \notin Holding) =>
         g_config_req_async = Null /\ live = {}
    /\ g_active_config_request_valid =>
         \E r \in Requesters : pc[r] \in {"state", "take", "wait", "result",
                                          "free", "unvalid"}
    /\ g_active_config_request_ptr # Null =>
         \E r \in Requesters : pc[r] \in {"valid", "state", "take", "wait",
                                          "result", "free", "unvalid",
                                          "unptr"}

Quiet == races \cap {"overlap", "late"} = {}

(* If no timeout fell into the processing of an answer either, the uplink  *)
(* task processes an answer for a requester that waits for it, and a       *)
(* request that was completed is not processed again.                      *)
Answering ==
  Quiet =>
    /\ ~fault
    /\ up \in {"copy", "result", "give"} =>
         /\ g_active_config_request_ptr = g_config_req_async
         /\ g_config_req_async \notin given
         /\ \E r \in Requesters : pc[r] \in {"state", "take", "wait"}
    /\ \A r \in Requesters :
         /\ pc[r] = "result" => g_config_req_async \in given
         /\ pc[r] \in Holding /\ g_config_req_async \in given =>
              /\ pc[r] \in {"state", "take", "wait", "result", "free"}
              /\ g_active_config_request_valid => up = "unvalid"

(* ... and the buffer of the requester is filled before its result is set. *)
Answered ==
  Quiet =>
    \A r \in Requesters :
      /\ pc[r] # "idle" /\ up \in {"result", "give"} => filled[r]
      /\ pc[r] \in Holding /\ g_config_req_async \in done => filled[r]
      /\ res[r] = "OK" => filled[r]

(* Without any race a request stays published until it is completed, and   *)
(* the reset that follows finds no newer one.                              *)
Registered ==
  races = {} =>
    \A r \in Requesters :
      /\ Resetting /\ pc[r] \in {"malloc", "sem", "fill", "ptr", "valid",
                                 "state", "take", "wait"} =>
           g_config_req_async \in given
      /\ pc[r] \in {"valid", "state", "take", "wait"}
           /\ g_config_req_async \notin given =>
           g_active_config_request_ptr = g_config_req_async
      /\ pc[r] \in {"state", "take", "wait"}
           /\ g_config_req_async \notin given => g_active_config_request_valid

(* The inductive invariant.                                                *)
Inv ==
  TypeOK /\ Numbered /\ Heap /\ Answering /\ Answered /\ Registered

-----------------------------------------------------------------------------
(* A call that reaches malloc has a number left for its object.            *)
LEMMA MallocBound ==
  ASSUME TypeOK, Numbered, NEW r \in Requesters, pc[r] = "malloc"
  PROVE  allocated \in Nat /\ allocated + 1 <= calls /\ allocated + 1 <= MaxCalls
<1> DEFINE S == {q \in Requesters : pc[q] = "malloc"}
<1>1. Cardinality(S) \in Nat /\ Cardinality(S) # 0
  <2>1. r \in S
    OBVIOUS
  <2> QED BY <2>1, FS_CardinalityType, FS_EmptySet DEF Numbered
<1>2. allocated \in Nat /\ calls \in 0..MaxCalls
  BY CallsAssumption DEF TypeOK
<1> QED BY <1>1, <1>2, CallsAssumption DEF Numbered

(* Every step keeps the types: the calls and the objects stay within their *)
(* bound.                                                                  *)
LEMMA TypeStep ==
  ASSUME TypeOK, Numbered, [Next]_vars PROVE TypeOK'
<1> USE DEF TypeOK, RequestPoints, UplinkPoints, reqVars, objVars
<1>1. ASSUME NEW r \in Requesters, CheckValid(r) PROVE TypeOK'
  <2>1. calls' \in 0..MaxCalls
    BY <1>1, CallsAssumption DEF CheckValid
  <2>2. races' \subseteq {"overlap", "late", "tail"}
    BY <1>1 DEF CheckValid
  <2> QED BY <1>1, <2>1, <2>2 DEF CheckValid, Goto, Return
<1>2. ASSUME NEW r \in Requesters, Malloc(r) PROVE TypeOK'
  <2>1. allocated + 1 \in Objects /\ allocated + 1 \in 0..MaxCalls
    BY <1>2, MallocBound, CallsAssumption DEF Malloc, Objects
  <2>2. allocated' \in 0..MaxCalls /\ live' \subseteq Objects
    BY <1>2, <2>1 DEF Malloc
  <2>3. g_config_req_async' \in Pointers
    BY <1>2, <2>1 DEF Malloc, Pointers
  <2> QED BY <1>2, <2>2, <2>3 DEF Malloc, Goto, Return
<1>3. ASSUME NEW r \in Requesters, CreateSemaphore(r) PROVE TypeOK'
  <2>1. fault' \in BOOLEAN /\ live' \subseteq Objects
    BY <1>3 DEF CreateSemaphore, FreeAsync
  <2>2. g_config_req_async' \in Pointers
    BY <1>3 DEF CreateSemaphore, FreeAsync, Pointers
  <2> QED BY <1>3, <2>1, <2>2 DEF CreateSemaphore, Goto, Return
<1>4. ASSUME NEW r \in Requesters, FillRequest(r) PROVE TypeOK'
  BY <1>4 DEF FillRequest, Goto
<1>5. ASSUME NEW r \in Requesters, SetPtr(r) PROVE TypeOK'
  BY <1>5 DEF SetPtr, Goto, Pointers
<1>6. ASSUME NEW r \in Requesters, SetValid(r) PROVE TypeOK'
  BY <1>6 DEF SetValid, Goto
<1>7. ASSUME NEW r \in Requesters, SetState(r) PROVE TypeOK'
  BY <1>7 DEF SetState, Goto
<1>8. ASSUME NEW r \in Requesters, TakeSemaphore(r) PROVE TypeOK'
  BY <1>8 DEF TakeSemaphore, Goto, Pointers
<1>9. ASSUME NEW r \in Requesters, Completed(r) PROVE TypeOK'
  BY <1>9 DEF Completed, Goto
<1>10. ASSUME NEW r \in Requesters, Timeout(r) PROVE TypeOK'
  BY <1>10 DEF Timeout, Goto
<1>11. ASSUME NEW r \in Requesters, ReadResult(r) PROVE TypeOK'
  BY <1>11 DEF ReadResult, Goto
<1>12. ASSUME NEW r \in Requesters, Free(r) PROVE TypeOK'
  <2>1. fault' \in BOOLEAN /\ live' \subseteq Objects
    BY <1>12 DEF Free, FreeAsync
  <2>2. g_config_req_async' \in Pointers
    BY <1>12 DEF Free, FreeAsync, Pointers
  <2> QED BY <1>12, <2>1, <2>2 DEF Free, Goto
<1>13. ASSUME NEW r \in Requesters, ClearValid(r) PROVE TypeOK'
  BY <1>13 DEF ClearValid, Goto
<1>14. ASSUME NEW r \in Requesters, ClearPtr(r) PROVE TypeOK'
  BY <1>14 DEF ClearPtr, Goto, Pointers
<1>15. ASSUME NEW r \in Requesters, ClearState(r) PROVE TypeOK'
  BY <1>15 DEF ClearState, Goto
<1>16. CASE DataQuery
  BY <1>16 DEF DataQuery
<1>17. CASE LoadCfcq
  BY <1>17 DEF LoadCfcq
<1>18. CASE process_config_query
  BY <1>18 DEF process_config_query
<1>19. CASE CopyAnswer
  BY <1>19 DEF CopyAnswer
<1>20. CASE SetResult
  BY <1>20 DEF SetResult
<1>21. CASE GiveSemaphore
  BY <1>21 DEF GiveSemaphore
<1>22. CASE ResetGlobals
  BY <1>22 DEF ResetGlobals, Pointers
<1>23. CASE UNCHANGED vars
  BY <1>23 DEF vars
<1> QED
  BY <1>1, <1>2, <1>3, <1>4, <1>5, <1>6, <1>7, <1>8, <1>9, <1>10, <1>11,
     <1>12, <1>13, <1>14, <1>15, <1>16, <1>17, <1>18, <1>19, <1>20, <1>21,
     <1>22, <1>23
  DEF Next, Requester, Uplink, ReceiveOther

(* Every step keeps the objects numbered.                                  *)
LEMMA NumberedStep ==
  ASSUME TypeOK, Numbered, [Next]_vars PROVE Numbered'
<1> DEFINE S == {q \in Requesters : pc[q] = "malloc"}
<1>1. /\ IsFiniteSet(S) /\ Cardinality(S) \in Nat
      /\ allocated \in Nat /\ calls \in Nat
      /\ allocated + Cardinality(S) <= calls
  BY FS_CardinalityType, CallsAssumption DEF Numbered, TypeOK
<1>2. ASSUME NEW r \in Requesters, CheckValid(r) PROVE Numbered'
  <2>1. S' \in {S, S \cup {r}}
    BY <1>2 DEF CheckValid, Goto, Return, TypeOK
  <2>2. /\ IsFiniteSet(S \cup {r})
        /\ Cardinality(S \cup {r}) \in {Cardinality(S), Cardinality(S) + 1}
    BY <1>1, FS_AddElement
  <2>3. calls' = calls + 1 /\ UNCHANGED <<live, done, given, allocated>>
    BY <1>2 DEF CheckValid, objVars
  <2>4. IsFiniteSet(S') /\ Cardinality(S') \in {Cardinality(S), Cardinality(S) + 1}
    BY <1>1, <2>1, <2>2
  <2> QED BY <1>1, <2>3, <2>4 DEF Numbered
<1>3. ASSUME NEW r \in Requesters, Malloc(r) PROVE Numbered'
  <2>1. r \in S /\ S' = S \ {r}
    BY <1>3 DEF Malloc, Goto, Return, TypeOK
  <2>2. IsFiniteSet(S') /\ Cardinality(S') = Cardinality(S) - 1
    <3> HIDE DEF S
    <3>1. IsFiniteSet(S \ {r}) /\ Cardinality(S \ {r}) = Cardinality(S) - 1
      BY <1>1, <2>1, FS_RemoveElement
    <3> QED BY <2>1, <3>1
  <2>3. /\ allocated' \in {allocated, allocated + 1} /\ calls' = calls
        /\ live' \subseteq live \cup {allocated'}
        /\ allocated' = allocated => live' = live
        /\ UNCHANGED <<done, given>>
    BY <1>1, <1>3 DEF Malloc
  <2> QED BY <1>1, <2>2, <2>3 DEF Numbered
<1>4. ASSUME S' = S, calls' = calls, allocated' = allocated,
             live' \subseteq live, done' \subseteq done \cup live,
             given' \subseteq given \cup live
      PROVE  Numbered'
  BY <1>4 DEF Numbered
<1>5. ASSUME NEW r \in Requesters,
             \/ CreateSemaphore(r) \/ FillRequest(r) \/ SetPtr(r) \/ SetValid(r)
             \/ SetState(r) \/ TakeSemaphore(r) \/ Completed(r) \/ Timeout(r)
             \/ ReadResult(r) \/ Free(r) \/ ClearValid(r) \/ ClearPtr(r)
             \/ ClearState(r)
      PROVE  Numbered'
  <2>1. S' = S
    BY <1>5 DEF TypeOK, CreateSemaphore, FillRequest, SetPtr, SetValid,
                SetState, TakeSemaphore, Completed, Timeout, ReadResult, Free,
                ClearValid, ClearPtr, ClearState, Goto, Return
  <2>2. /\ calls' = calls /\ allocated' = allocated /\ live' \subseteq live
        /\ done' \subseteq done /\ given' = given
    BY <1>5 DEF objVars, CreateSemaphore, FillRequest, SetPtr, SetValid,
                SetState, TakeSemaphore, Completed, Timeout, ReadResult, Free,
                ClearValid, ClearPtr, ClearState, FreeAsync
  <2> QED BY <1>4, <2>1, <2>2
<1>6. CASE Uplink
  BY <1>4, <1>6
  DEF Uplink, DataQuery, LoadCfcq, process_config_query, CopyAnswer,
      SetResult, GiveSemaphore, ResetGlobals, ReceiveOther, reqVars, objVars,
      vars
<1>7. CASE UNCHANGED vars
  BY <1>4, <1>7 DEF vars, reqVars, objVars
<1> QED BY <1>2, <1>3, <1>5, <1>6, <1>7 DEF Next, Requester

(* Every step of calls that do not overlap keeps one object, owned by the  *)
(* requester that is in the function, and the globals referring to it      *)
(* alone.                                                                  *)
LEMMA HeapStep ==
  ASSUME TypeOK, Numbered, Heap, [Next]_vars PROVE Heap'
<1> USE DEF TypeOK, Heap, Holding, Numbered, reqVars, objVars
<1>1. ASSUME NEW r \in Requesters, CheckValid(r) PROVE Heap'
  BY <1>1, NullAssumption DEF CheckValid, Goto, Return, Resetting
<1>2. ASSUME NEW r \in Requesters, Malloc(r) PROVE Heap'
  <2>1. allocated \in Nat
    BY CallsAssumption DEF TypeOK
  <2>2. "overlap" \notin races => live = {} /\ g_config_req_async = Null
    BY <1>2 DEF Malloc
  <2>3. CASE g_config_req_async' = Null
    <3>1. /\ live' = live /\ allocated' = allocated
          /\ pc' = [pc EXCEPT ![r] = "idle"]
      BY <1>2, <2>1, <2>3, NullAssumption DEF Malloc, Goto, Return
    <3> QED BY <1>2, <2>2, <2>3, <3>1 DEF Malloc
  <2>4. CASE g_config_req_async' = allocated + 1
    <3>1. /\ live' = live \cup {allocated + 1} /\ allocated' = allocated + 1
          /\ pc' = [pc EXCEPT ![r] = "sem"] /\ allocated + 1 \in 1..allocated'
      BY <1>2, <2>1, <2>4, NullAssumption DEF Malloc, Goto
    <3>2. UNCHANGED <<sem, owner, g_active_config_request_ptr,
                      g_active_config_request_valid, races>>
          /\ pc[r] = "malloc"
      BY <1>2 DEF Malloc
    <3>3. "overlap" \notin races =>
            \A q \in Requesters : q # r => pc'[q] = "idle"
      BY <3>1, <3>2
    <3>4. "overlap" \notin races => live' = {g_config_req_async'}
      BY <2>2, <2>4, <3>1
    <3> QED BY <2>2, <2>4, <3>1, <3>2, <3>3, <3>4
  <2> QED BY <1>2, <2>3, <2>4 DEF Malloc
<1>3. ASSUME NEW r \in Requesters, CreateSemaphore(r) PROVE Heap'
  BY <1>3, NullAssumption DEF CreateSemaphore, Goto, Return, FreeAsync
<1>4. ASSUME NEW r \in Requesters, FillRequest(r) PROVE Heap'
  <2>1. pc[r] = "fill" /\ pc' = [pc EXCEPT ![r] = "ptr"]
    BY <1>4 DEF FillRequest, Goto
  <2>2. UNCHANGED <<sem, g_config_req_async, g_active_config_request_ptr,
                    g_active_config_request_valid, live, allocated, races>>
    BY <1>4 DEF FillRequest
  <2>3. "overlap" \notin races =>
          /\ g_config_req_async \in Objects /\ g_config_req_async # Null
          /\ owner' = [owner EXCEPT ![g_config_req_async] = r]
    BY <1>4, <2>1, NullAssumption DEF FillRequest, Objects
  <2>4. "overlap" \notin races => owner'[g_config_req_async] = r
    BY <2>3
  <2> QED BY <2>1, <2>2, <2>4
<1>5. ASSUME NEW r \in Requesters, SetPtr(r) PROVE Heap'
  BY <1>5, NullAssumption DEF SetPtr, Goto
<1>6. ASSUME NEW r \in Requesters, SetValid(r) PROVE Heap'
  BY <1>6, NullAssumption DEF SetValid, Goto
<1>7. ASSUME NEW r \in Requesters, SetState(r) PROVE Heap'
  BY <1>7 DEF SetState, Goto
<1>8. ASSUME NEW r \in Requesters, TakeSemaphore(r) PROVE Heap'
  BY <1>8, NullAssumption DEF TakeSemaphore, Goto
<1>9. ASSUME NEW r \in Requesters, Completed(r) PROVE Heap'
  BY <1>9 DEF Completed, Goto
<1>10. ASSUME NEW r \in Requesters, Timeout(r) PROVE Heap'
  BY <1>10, NullAssumption DEF Timeout, Goto
<1>11. ASSUME NEW r \in Requesters, ReadResult(r) PROVE Heap'
  BY <1>11, NullAssumption DEF ReadResult, Goto
<1>12. ASSUME NEW r \in Requesters, Free(r) PROVE Heap'
  BY <1>12, NullAssumption DEF Free, Goto, FreeAsync
<1>13. ASSUME NEW r \in Requesters, ClearValid(r) PROVE Heap'
  BY <1>13, NullAssumption DEF ClearValid, Goto
<1>14. ASSUME NEW r \in Requesters, ClearPtr(r) PROVE Heap'
  BY <1>14, NullAssumption DEF ClearPtr, Goto
<1>15. ASSUME NEW r \in Requesters, ClearState(r) PROVE Heap'
  BY <1>15, NullAssumption DEF ClearState, Goto
<1>16. CASE DataQuery
  BY <1>16, NullAssumption DEF DataQuery
<1>17. CASE LoadCfcq
  BY <1>17, NullAssumption DEF LoadCfcq
<1>18. CASE process_config_query
  BY <1>18, NullAssumption DEF process_config_query
<1>19. CASE CopyAnswer
  BY <1>19, NullAssumption DEF CopyAnswer
<1>20. CASE SetResult
  BY <1>20, NullAssumption DEF SetResult
<1>21. CASE GiveSemaphore
  BY <1>21, NullAssumption DEF GiveSemaphore
<1>22. CASE ResetGlobals
  BY <1>22, NullAssumption DEF ResetGlobals
<1>23. CASE UNCHANGED vars
  BY <1>23 DEF vars
<1> QED
  BY <1>1, <1>2, <1>3, <1>4, <1>5, <1>6, <1>7, <1>8, <1>9, <1>10, <1>11,
     <1>12, <1>13, <1>14, <1>15, <1>16, <1>17, <1>18, <1>19, <1>20, <1>21,
     <1>22, <1>23
  DEF Next, Requester, Uplink, ReceiveOther

(* Every step keeps the answer that is being processed with the requester  *)
(* that waits for it.                                                      *)
LEMMA AnsweringStep ==
  ASSUME TypeOK, Numbered, Heap, Answering, [Next]_vars PROVE Answering'
<1> USE DEF TypeOK, Quiet, Answering, Heap, Holding, Numbered, reqVars,
            objVars
<1>1. ASSUME NEW r \in Requesters, CheckValid(r) PROVE Answering'
  BY <1>1, NullAssumption DEF CheckValid, Goto, Return, Resetting
<1>2. ASSUME NEW r \in Requesters, Malloc(r) PROVE Answering'
  BY <1>2, NullAssumption DEF Malloc, Goto, Return
<1>3. ASSUME NEW r \in Requesters, CreateSemaphore(r) PROVE Answering'
  BY <1>3, NullAssumption DEF CreateSemaphore, Goto, Return, FreeAsync
<1>4. ASSUME NEW r \in Requesters, FillRequest(r) PROVE Answering'
  BY <1>4, NullAssumption DEF FillRequest, Goto
<1>5. ASSUME NEW r \in Requesters, SetPtr(r) PROVE Answering'
  BY <1>5, NullAssumption DEF SetPtr, Goto
<1>6. ASSUME NEW r \in Requesters, SetValid(r) PROVE Answering'
  BY <1>6, NullAssumption DEF SetValid, Goto
<1>7. ASSUME NEW r \in Requesters, SetState(r) PROVE Answering'
  BY <1>7, NullAssumption DEF SetState, Goto
<1>8. ASSUME NEW r \in Requesters, TakeSemaphore(r) PROVE Answering'
  BY <1>8, NullAssumption DEF TakeSemaphore, Goto
<1>9. ASSUME NEW r \in Requesters, Completed(r) PROVE Answering'
  BY <1>9, NullAssumption DEF Completed, Goto
<1>10. ASSUME NEW r \in Requesters, Timeout(r) PROVE Answering'
  BY <1>10, NullAssumption DEF Timeout, Goto
<1>11. ASSUME NEW r \in Requesters, ReadResult(r) PROVE Answering'
  BY <1>11, NullAssumption DEF ReadResult, Goto
<1>12. ASSUME NEW r \in Requesters, Free(r) PROVE Answering'
  BY <1>12, NullAssumption DEF Free, Goto, FreeAsync
<1>13. ASSUME NEW r \in Requesters, ClearValid(r) PROVE Answering'
  BY <1>13, NullAssumption DEF ClearValid, Goto
<1>14. ASSUME NEW r \in Requesters, ClearPtr(r) PROVE Answering'
  BY <1>14, NullAssumption DEF ClearPtr, Goto
<1>15. ASSUME NEW r \in Requesters, ClearState(r) PROVE Answering'
  BY <1>15, NullAssumption DEF ClearState, Goto
<1>16. CASE DataQuery
  BY <1>16, NullAssumption DEF DataQuery
<1>17. CASE LoadCfcq
  BY <1>17, NullAssumption DEF LoadCfcq
<1>18. CASE process_config_query
  BY <1>18, NullAssumption DEF process_config_query
<1>19. CASE CopyAnswer
  BY <1>19, NullAssumption DEF CopyAnswer
<1>20. CASE SetResult
  BY <1>20, NullAssumption DEF SetResult
<1>21. CASE GiveSemaphore
  BY <1>21, NullAssumption DEF GiveSemaphore
<1>22. CASE ResetGlobals
  BY <1>22, NullAssumption DEF ResetGlobals
<1>23. CASE UNCHANGED vars
  BY <1>23 DEF vars
<1> QED
  BY <1>1, <1>2, <1>3, <1>4, <1>5, <1>6, <1>7, <1>8, <1>9, <1>10, <1>11,
     <1>12, <1>13, <1>14, <1>15, <1>16, <1>17, <1>18, <1>19, <1>20, <1>21,
     <1>22, <1>23
  DEF Next, Requester, Uplink, ReceiveOther

(* Every step keeps the buffer filled before the result.                   *)
LEMMA AnsweredStep ==
  ASSUME TypeOK, Numbered, Heap, Answering, Answered, [Next]_vars PROVE Answered'
<1> USE DEF TypeOK, Quiet, Answering, Answered, Heap, Holding, Numbered,
            reqVars, objVars
<1>1. ASSUME NEW r \in Requesters, CheckValid(r) PROVE Answered'
  BY <1>1, NullAssumption DEF CheckValid, Goto, Return, Resetting, Objects
<1>2. ASSUME NEW r \in Requesters, Malloc(r) PROVE Answered'
  BY <1>2, NullAssumption DEF Malloc, Goto, Return, Objects
<1>3. ASSUME NEW r \in Requesters, CreateSemaphore(r) PROVE Answered'
  BY <1>3, NullAssumption
  DEF CreateSemaphore, Goto, Return, FreeAsync, Objects
<1>4. ASSUME NEW r \in Requesters, FillRequest(r) PROVE Answered'
  BY <1>4, NullAssumption DEF FillRequest, Goto, Objects
<1>5. ASSUME NEW r \in Requesters, SetPtr(r) PROVE Answered'
  BY <1>5, NullAssumption DEF SetPtr, Goto, Objects
<1>6. ASSUME NEW r \in Requesters, SetValid(r) PROVE Answered'
  BY <1>6, NullAssumption DEF SetValid, Goto, Objects
<1>7. ASSUME NEW r \in Requesters, SetState(r) PROVE Answered'
  BY <1>7, NullAssumption DEF SetState, Goto, Objects
<1>8. ASSUME NEW r \in Requesters, TakeSemaphore(r) PROVE Answered'
  BY <1>8, NullAssumption DEF TakeSemaphore, Goto, Objects
<1>9. ASSUME NEW r \in Requesters, Completed(r) PROVE Answered'
  BY <1>9, NullAssumption DEF Completed, Goto, Objects
<1>10. ASSUME NEW r \in Requesters, Timeout(r) PROVE Answered'
  BY <1>10, NullAssumption DEF Timeout, Goto, Objects
<1>11. ASSUME NEW r \in Requesters, ReadResult(r) PROVE Answered'
  BY <1>11, NullAssumption DEF ReadResult, Goto, Objects
<1>12. ASSUME NEW r \in Requesters, Free(r) PROVE Answered'
  BY <1>12, NullAssumption DEF Free, Goto, FreeAsync, Objects
<1>13. ASSUME NEW r \in Requesters, ClearValid(r) PROVE Answered'
  BY <1>13, NullAssumption DEF ClearValid, Goto, Objects
<1>14. ASSUME NEW r \in Requesters, ClearPtr(r) PROVE Answered'
  BY <1>14, NullAssumption DEF ClearPtr, Goto, Objects
<1>15. ASSUME NEW r \in Requesters, ClearState(r) PROVE Answered'
  BY <1>15, NullAssumption DEF ClearState, Goto, Objects
<1>16. CASE DataQuery
  BY <1>16, NullAssumption DEF DataQuery, Objects
<1>17. CASE LoadCfcq
  BY <1>17, NullAssumption DEF LoadCfcq, Objects
<1>18. CASE process_config_query
  BY <1>18, NullAssumption DEF process_config_query, Objects
<1>19. CASE CopyAnswer
  BY <1>19, NullAssumption DEF CopyAnswer, Objects
<1>20. CASE SetResult
  BY <1>20, NullAssumption DEF SetResult, Objects
<1>21. CASE GiveSemaphore
  BY <1>21, NullAssumption DEF GiveSemaphore, Objects
<1>22. CASE ResetGlobals
  BY <1>22, NullAssumption DEF ResetGlobals, Objects
<1>23. CASE UNCHANGED vars
  BY <1>23 DEF vars
<1> QED
  BY <1>1, <1>2, <1>3, <1>4, <1>5, <1>6, <1>7, <1>8, <1>9, <1>10, <1>11,
     <1>12, <1>13, <1>14, <1>15, <1>16, <1>17, <1>18, <1>19, <1>20, <1>21,
     <1>22, <1>23
  DEF Next, Requester, Uplink, ReceiveOther

(* Every step of a run without races keeps a request published until it is *)
(* completed.                                                              *)
LEMMA RegisteredStep ==
  ASSUME TypeOK, Numbered, Heap, Answering, Registered, [Next]_vars PROVE Registered'
<1> USE DEF TypeOK, Quiet, Answering, Registered, Resetting, Heap, Holding,
            Numbered, reqVars, objVars
<1>1. ASSUME NEW r \in Requesters, CheckValid(r) PROVE Registered'
  BY <1>1, NullAssumption DEF CheckValid, Goto, Return, Resetting
<1>2. ASSUME NEW r \in Requesters, Malloc(r) PROVE Registered'
  <2>1. races = {} => g_config_req_async = Null
    BY <1>2 DEF Malloc
  <2>2. Null \notin given
    <3>1. given \subseteq Nat
      BY CallsAssumption
    <3> QED BY <3>1, NullAssumption
  <2>3. races = {} => ~Resetting
    BY <1>2, <2>1, <2>2 DEF Malloc
  <2> QED BY <1>2, <2>3 DEF Malloc, Goto, Return
<1>3. ASSUME NEW r \in Requesters, CreateSemaphore(r) PROVE Registered'
  BY <1>3, NullAssumption DEF CreateSemaphore, Goto, Return, FreeAsync
<1>4. ASSUME NEW r \in Requesters, FillRequest(r) PROVE Registered'
  BY <1>4, NullAssumption DEF FillRequest, Goto
<1>5. ASSUME NEW r \in Requesters, SetPtr(r) PROVE Registered'
  BY <1>5, NullAssumption DEF SetPtr, Goto
<1>6. ASSUME NEW r \in Requesters, SetValid(r) PROVE Registered'
  BY <1>6, NullAssumption DEF SetValid, Goto
<1>7. ASSUME NEW r \in Requesters, SetState(r) PROVE Registered'
  BY <1>7, NullAssumption DEF SetState, Goto
<1>8. ASSUME NEW r \in Requesters, TakeSemaphore(r) PROVE Registered'
  BY <1>8, NullAssumption DEF TakeSemaphore, Goto
<1>9. ASSUME NEW r \in Requesters, Completed(r) PROVE Registered'
  BY <1>9, NullAssumption DEF Completed, Goto
<1>10. ASSUME NEW r \in Requesters, Timeout(r) PROVE Registered'
  BY <1>10, NullAssumption DEF Timeout, Goto
<1>11. ASSUME NEW r \in Requesters, ReadResult(r) PROVE Registered'
  BY <1>11, NullAssumption DEF ReadResult, Goto
<1>12. ASSUME NEW r \in Requesters, Free(r) PROVE Registered'
  BY <1>12, NullAssumption DEF Free, Goto, FreeAsync
<1>13. ASSUME NEW r \in Requesters, ClearValid(r) PROVE Registered'
  BY <1>13, NullAssumption DEF ClearValid, Goto
<1>14. ASSUME NEW r \in Requesters, ClearPtr(r) PROVE Registered'
  BY <1>14, NullAssumption DEF ClearPtr, Goto
<1>15. ASSUME NEW r \in Requesters, ClearState(r) PROVE Registered'
  BY <1>15, NullAssumption DEF ClearState, Goto
<1>16. CASE DataQuery
  BY <1>16, NullAssumption DEF DataQuery
<1>17. CASE LoadCfcq
  BY <1>17, NullAssumption DEF LoadCfcq
<1>18. CASE process_config_query
  BY <1>18, NullAssumption DEF process_config_query
<1>19. CASE CopyAnswer
  BY <1>19, NullAssumption DEF CopyAnswer
<1>20. CASE SetResult
  BY <1>20, NullAssumption DEF SetResult
<1>21. CASE GiveSemaphore
  BY <1>21, NullAssumption DEF GiveSemaphore
<1>22. CASE ResetGlobals
  BY <1>22, NullAssumption DEF ResetGlobals
<1>23. CASE UNCHANGED vars
  BY <1>23 DEF vars
<1> QED
  BY <1>1, <1>2, <1>3, <1>4, <1>5, <1>6, <1>7, <1>8, <1>9, <1>10, <1>11,
     <1>12, <1>13, <1>14, <1>15, <1>16, <1>17, <1>18, <1>19, <1>20, <1>21,
     <1>22, <1>23
  DEF Next, Requester, Uplink, ReceiveOther

-----------------------------------------------------------------------------
(* The invariant holds of every reachable state.                           *)
LEMMA Invariance == Spec => []Inv
<1>1. Init => Inv
  <2> SUFFICES ASSUME Init PROVE Inv
    OBVIOUS
  <2>1. TypeOK
    <3>1. allocated \in 0..MaxCalls /\ calls \in 0..MaxCalls
      BY CallsAssumption DEF Init
    <3> QED BY <3>1
            DEF Init, TypeOK, RequestPoints, UplinkPoints, Pointers, Objects
  <2>2. Numbered
    <3>1. {r \in Requesters : pc[r] = "malloc"} = {}
      BY DEF Init
    <3> QED BY <3>1, FS_EmptySet DEF Init, Numbered
  <2>3. Heap /\ Answering /\ Answered /\ Registered
    BY DEF Init, Heap, Answering, Answered, Registered, Quiet, Holding,
           Resetting
  <2> QED BY <2>1, <2>2, <2>3 DEF Inv
<1>2. Inv /\ [Next]_vars => Inv'
  BY TypeStep, NumberedStep, HeapStep, AnsweringStep, AnsweredStep,
     RegisteredStep
  DEF Inv
<1> QED BY <1>1, <1>2, PTL DEF Spec

(* Every variable keeps its type.                                          *)
THEOREM TypeCorrect == Spec => []TypeOK
  BY Invariance, PTL DEF Inv

(* Requesters and uplink task follow NULL or a freed pointer only after    *)
(* two calls overlapped or a timeout met the processing of an answer.      *)
THEOREM FaultsNeedRaces == Spec => []FaultNeedsRace
<1>1. Inv => FaultNeedsRace
  BY DEF Inv, Answering, Quiet, FaultNeedsRace
<1> QED BY <1>1, Invariance, PTL

(* ESP_OK is returned only with the answer in the caller's buffer, unless  *)
(* one of the same two races happened.                                     *)
THEOREM OkIsAnswered == Spec => []OkMeansAnswered
<1>1. Inv => OkMeansAnswered
  BY DEF Inv, Answered, Quiet, OkMeansAnswered
<1> QED BY <1>1, Invariance, PTL

(* Without races a requester that waits is the one whose object is         *)
(* published to the uplink task.                                           *)
THEOREM WaitersAreRegistered == Spec => []WaitingIsRegistered
<1>1. Inv => WaitingIsRegistered
  BY DEF Inv, Heap, Registered, WaitingIsRegistered
<1> QED BY <1>1, Invariance, PTL

(* When every call has returned, nothing refers to a request and every     *)
(* object is freed, whatever the timeouts did; only overlapping calls      *)
(* leave something behind.                                                 *)
THEOREM RestsAreClean == Spec => []RestIsClean
<1>1. Inv => RestIsClean
  BY DEF Inv, Heap, Holding, RestIsClean
<1> QED BY <1>1, Invariance, PTL

-----------------------------------------------------------------------------
(* The commands that are polled over HTTP.                                 *)

(* Points at which the publishing task answers the command url.            *)
Posting == {"consume", "post", "cool", "release"}

(* What the polling task may be given, or has been.                        *)
Offered == open \cup ({polled} \ {None})

(* RpcTypeOK by kind; ids are those of commands the server has issued.     *)
RpcFlags ==
  /\ cooldown_over \in BOOLEAN /\ overlap \in BOOLEAN
  /\ unanswered \in BOOLEAN /\ mixed \in BOOLEAN
  /\ lost \in BOOLEAN

RpcPoints ==
  /\ poll \in {"get", "filter", "accept"}
  /\ pub \in {"receive", "route", "telemetry", "ended"} \cup Posting
  /\ polled = None <=> poll = "get"
  /\ url = None <=> pub \notin Posting

RpcIds ==
  /\ issued \in 0..MaxRpcs /\ sent \in 0..MaxTelemetry
  /\ s_last_rpc_id \in {None} \cup 1..issued
  /\ s_processing_rpc_id \in {None} \cup 1..issued
  /\ s_cooldown_rpc_id \in {None} \cup 1..issued
  /\ polled \in {None} \cup 1..issued /\ url \in {None} \cup 1..issued
  /\ down \subseteq 1..issued
  /\ open \subseteq 1..issued /\ answered \subseteq 1..issued
  /\ forwards \in [Rpcs -> 0..2]
  /\ \A r \in Rpcs : forwards[r] > 0 => r \in 1..issued

RpcQueue ==
  /\ queue \in Seq(Items) /\ Len(queue) <= HTTP_QUEUE_SIZE
  /\ item \in {None} \cup Items
  /\ pub = "route" => item # None

(* The id to be answered is the one in flight; it is taken before the      *)
(* answer is posted, and cools down before the guard is released.          *)
Flight ==
  ~overlap =>
    /\ s_last_rpc_id \in {None, s_processing_rpc_id}
    /\ pub \in Posting => url = s_processing_rpc_id
    /\ pub = "consume" => s_last_rpc_id = url
    /\ pub \in {"post", "cool", "release"} => s_last_rpc_id = None
    /\ pub = "release" => s_cooldown_rpc_id = url

(* A command that was forwarded and may be offered again is in flight or   *)
(* cools down, and no other is in flight meanwhile; a command that passed  *)
(* the filter is neither.                                                  *)
Guarded ==
  ~overlap =>
    /\ cooldown_over => s_cooldown_rpc_id \notin Offered
    /\ poll = "accept" =>
         polled \notin {s_processing_rpc_id, s_cooldown_rpc_id}
    /\ \A r \in Offered : forwards[r] > 0 =>
         /\ s_processing_rpc_id \in {None, r}
         /\ r \in {s_processing_rpc_id, s_cooldown_rpc_id}

(* Without telemetry ahead of it the answer to the id that waits for one   *)
(* is the first thing the publishing task takes, and what it posts: until  *)
(* the answer is queued there is nothing to take, and no answer but that   *)
(* one is queued or on its way.                                            *)
AnswerFirst ==
  ~overlap /\ ~mixed =>
    /\ down \subseteq {s_processing_rpc_id} /\ (down # {} => unanswered)
    /\ unanswered =>
         /\ s_last_rpc_id = s_processing_rpc_id /\ s_last_rpc_id # None
         /\ queue = <<>> /\ pub \notin {"route"} \cup Posting
    /\ \A k \in DOMAIN queue : queue[k] # Telemetry =>
         /\ k = 1 /\ queue[k] = s_last_rpc_id
         /\ pub \notin {"route"} \cup Posting
    /\ pub = "route" /\ item # Telemetry => item = s_last_rpc_id
    /\ s_last_rpc_id # None /\ ~unanswered =>
         \/ pub \in {"consume", "ended"}
         \/ pub = "route" /\ item = s_last_rpc_id
         \/ /\ queue # <<>> /\ queue[1] = s_last_rpc_id
            /\ pub \notin {"route"} \cup Posting
    /\ pub \in {"consume", "post"} => item = url

(* Without a failure the command in flight waits for its answer, or the    *)
(* answer is being posted.                                                 *)
Awaited ==
  overlap \/ lost \/ s_processing_rpc_id = s_last_rpc_id
    \/ s_processing_rpc_id = url

(* The inductive invariant of the RPC commands.                            *)
RpcInv ==
  /\ RpcFlags /\ RpcPoints /\ RpcIds /\ RpcQueue
  /\ Flight /\ Guarded /\ AnswerFirst /\ Awaited
  /\ ForwardedOnce /\ GuardHasCause

-----------------------------------------------------------------------------
(* Nothing is queued, polled or marked at the start.                       *)
LEMMA RpcInitInv == RpcInit => RpcInv
<1> SUFFICES ASSUME RpcInit PROVE RpcInv
  OBVIOUS
<1> USE DEF RpcInit
<1>1. RpcFlags /\ RpcPoints
  BY DEF RpcFlags, RpcPoints, Posting, None
<1>2. RpcIds
  BY BoundsAssumption DEF RpcIds, Rpcs
<1>3. RpcQueue
  BY SizeAssumption DEF RpcQueue
<1>4. Flight /\ Guarded /\ AnswerFirst /\ Awaited
  BY DEF Flight, Guarded, AnswerFirst, Awaited, Offered, Posting
<1>5. ForwardedOnce /\ GuardHasCause
  BY DEF ForwardedOnce, GuardHasCause
<1> QED BY <1>1, <1>2, <1>3, <1>4, <1>5 DEF RpcInv

(* A command in the polling task's hands is one the server has issued.     *)
LEMMA PolledIssued ==
  ASSUME RpcPoints, RpcIds, poll = "accept"
  PROVE  polled \in 1..issued /\ polled \in Rpcs /\ polled # None
<1>1. polled # None /\ polled \in 1..issued
  BY DEF RpcPoints, RpcIds
<1>2. issued \in Nat /\ MaxRpcs \in Nat /\ issued <= MaxRpcs
  BY BoundsAssumption DEF RpcIds
<1> QED BY <1>1, <1>2 DEF Rpcs

(* Every step keeps the flags Boolean.                                     *)
LEMMA RpcFlagsStep ==
  ASSUME RpcFlags, [RpcNext]_rpcVars PROVE RpcFlags'
<1> USE DEF RpcFlags, guardVars, pollVars, pubVars, lanVars, srvVars, histVars,
            mixVars
<1>1. ASSUME NEW r \in Rpcs, PollCommand(r) PROVE RpcFlags'
  BY <1>1 DEF PollCommand
<1>2. CASE PollFilter
  BY <1>2 DEF PollFilter, Skipped
<1>3. CASE PollAccept
  <2>1. overlap' \in BOOLEAN
    BY <1>3 DEF PollAccept, Mark
  <2>2. lost' \in BOOLEAN
    BY <1>3 DEF PollAccept, Mark
  <2>3. unanswered' \in BOOLEAN
    BY <1>3 DEF PollAccept
  <2>4. mixed' \in BOOLEAN
    BY <1>3 DEF PollAccept
  <2>5. UNCHANGED cooldown_over
    BY <1>3 DEF PollAccept
  <2> QED BY <2>1, <2>2, <2>3, <2>4, <2>5
<1>4. CASE CooldownPasses
  <2>1. cooldown_over' \in BOOLEAN
    BY <1>4 DEF CooldownPasses
  <2>2. overlap' \in BOOLEAN
    BY <1>4 DEF CooldownPasses
  <2>3. UNCHANGED <<mixVars, lost>>
    BY <1>4 DEF CooldownPasses
  <2> QED BY <2>1, <2>2, <2>3
<1>5. CASE PublishReceive
  BY <1>5 DEF PublishReceive
<1>6. CASE PublishRoute
  <2>1. lost' \in BOOLEAN
    BY <1>6 DEF PublishRoute, AnswerId
  <2>2. UNCHANGED <<cooldown_over, overlap, mixVars>>
    BY <1>6 DEF PublishRoute
  <2> QED BY <2>1, <2>2
<1>7. CASE Consume
  BY <1>7 DEF Consume
<1>8. CASE Post
  <2>1. lost' \in BOOLEAN
    BY <1>8 DEF Post, NextItem
  <2>2. UNCHANGED <<cooldown_over, overlap, mixVars>>
    BY <1>8 DEF Post
  <2> QED BY <2>1, <2>2
<1>9. CASE EnterCooldown
  <2>1. cooldown_over' \in BOOLEAN
    BY <1>9 DEF EnterCooldown
  <2>2. UNCHANGED <<overlap, mixVars, lost>>
    BY <1>9 DEF EnterCooldown
  <2> QED BY <2>1, <2>2
<1>10. CASE Release
  BY <1>10 DEF Release, NextItem
<1>11. CASE http_post_payload
  <2>1. lost' \in BOOLEAN
    BY <1>11 DEF http_post_payload, NextItem
  <2>2. UNCHANGED <<cooldown_over, overlap, mixVars>>
    BY <1>11 DEF http_post_payload
  <2> QED BY <2>1, <2>2
<1>12. ASSUME NEW x \in Items, http_enqueue_telemetry(x) PROVE RpcFlags'
  <2>1. lost' \in BOOLEAN
    BY <1>12 DEF http_enqueue_telemetry, QueueFull
  <2>2. unanswered' \in BOOLEAN
    BY <1>12 DEF http_enqueue_telemetry
  <2>3. mixed' \in BOOLEAN
    BY <1>12 DEF http_enqueue_telemetry
  <2>4. UNCHANGED <<cooldown_over, overlap>>
    BY <1>12 DEF http_enqueue_telemetry
  <2> QED BY <2>1, <2>2, <2>3, <2>4
<1>13. ASSUME NEW r \in Rpcs, NoAnswer(r) PROVE RpcFlags'
  <2>1. lost' \in BOOLEAN
    BY <1>13 DEF NoAnswer
  <2>2. UNCHANGED <<cooldown_over, overlap, mixVars>>
    BY <1>13 DEF NoAnswer
  <2> QED BY <2>1, <2>2
<1>14. ASSUME NEW r \in Rpcs, Settle(r) PROVE RpcFlags'
  BY <1>14 DEF Settle
<1>15. CASE Issue
  BY <1>15 DEF Issue
<1>16. CASE UNCHANGED rpcVars
  BY <1>16 DEF rpcVars
<1> QED
  BY <1>1, <1>2, <1>3, <1>4, <1>5, <1>6, <1>7, <1>8, <1>9, <1>10, <1>11,
     <1>12, <1>13, <1>14, <1>15, <1>16
  DEF RpcNext, http_poll_rpc, http_publish_task

(* Every step keeps the control points of the two tasks, and the ids they  *)
(* hold at them.                                                           *)
LEMMA RpcPointsStep ==
  ASSUME RpcPoints, RpcIds, [RpcNext]_rpcVars PROVE RpcPoints'
<1> USE DEF RpcPoints, RpcIds, Posting, Rpcs, None, Items, Telemetry,
            guardVars, pollVars, pubVars, lanVars, srvVars, histVars, mixVars
<1>1. ASSUME NEW r \in Rpcs, PollCommand(r) PROVE RpcPoints'
  BY <1>1, BoundsAssumption DEF PollCommand
<1>2. CASE PollFilter
  BY <1>2, BoundsAssumption DEF PollFilter, Skipped
<1>3. CASE PollAccept
  BY <1>3, BoundsAssumption DEF PollAccept, Mark
<1>4. CASE CooldownPasses
  BY <1>4, BoundsAssumption DEF CooldownPasses
<1>5. CASE PublishReceive
  BY <1>5, BoundsAssumption DEF PublishReceive
<1>6. CASE PublishRoute
  BY <1>6, BoundsAssumption DEF PublishRoute, AnswerId
<1>7. CASE Consume
  BY <1>7, BoundsAssumption DEF Consume
<1>8. CASE Post
  BY <1>8, BoundsAssumption DEF Post, NextItem
<1>9. CASE EnterCooldown
  BY <1>9, BoundsAssumption DEF EnterCooldown
<1>10. CASE Release
  BY <1>10, BoundsAssumption DEF Release, NextItem
<1>11. CASE http_post_payload
  BY <1>11, BoundsAssumption DEF http_post_payload, NextItem
<1>12. ASSUME NEW x \in Items, http_enqueue_telemetry(x) PROVE RpcPoints'
  BY <1>12, BoundsAssumption DEF http_enqueue_telemetry, QueueFull
<1>13. ASSUME NEW r \in Rpcs, NoAnswer(r) PROVE RpcPoints'
  BY <1>13, BoundsAssumption DEF NoAnswer
<1>14. ASSUME NEW r \in Rpcs, Settle(r) PROVE RpcPoints'
  BY <1>14, BoundsAssumption DEF Settle
<1>15. CASE Issue
  BY <1>15, BoundsAssumption DEF Issue
<1>16. CASE UNCHANGED rpcVars
  BY <1>16 DEF rpcVars
<1> QED
  BY <1>1, <1>2, <1>3, <1>4, <1>5, <1>6, <1>7, <1>8, <1>9, <1>10, <1>11,
     <1>12, <1>13, <1>14, <1>15, <1>16
  DEF RpcNext, http_poll_rpc, http_publish_task

(* Every id is that of a command the server has issued.                    *)
LEMMA RpcIdsStep ==
  ASSUME RpcPoints, RpcIds, [RpcNext]_rpcVars PROVE RpcIds'
<1> USE DEF RpcPoints, RpcIds, Posting, Rpcs, None, Items, Telemetry,
            guardVars, pollVars, pubVars, lanVars, srvVars, histVars, mixVars
<1>1. ASSUME NEW r \in Rpcs, PollCommand(r) PROVE RpcIds'
  BY <1>1, BoundsAssumption DEF PollCommand
<1>2. CASE PollFilter
  BY <1>2, BoundsAssumption DEF PollFilter, Skipped
<1>3. CASE PollAccept
  <2>1. polled \in 1..issued /\ polled \in Rpcs
    BY <1>3, PolledIssued DEF PollAccept
  <2>2. \E n \in 0..2 : forwards' = [forwards EXCEPT ![polled] = n]
    <3>1. forwards[polled] \in 0..2
      BY <2>1
    <3>2. CASE forwards' = forwards
      BY <3>1, <3>2
    <3>3. CASE forwards' # forwards
      <4> DEFINE n == IF forwards[polled] = 2 THEN 2 ELSE forwards[polled] + 1
      <4>1. n \in 0..2
        BY <3>1
      <4>2. forwards' = [forwards EXCEPT ![polled] = n]
        BY <1>3, <3>3 DEF PollAccept
      <4> HIDE DEF n
      <4> QED BY <4>1, <4>2
    <3> QED BY <3>2, <3>3
  <2>3. /\ forwards' \in [Rpcs -> 0..2]
        /\ \A r \in Rpcs : forwards'[r] > 0 => r \in 1..issued
    BY <2>1, <2>2
  <2>4. down' \subseteq 1..issued
    BY <1>3, <2>1 DEF PollAccept
  <2>5. /\ s_last_rpc_id' = polled /\ s_processing_rpc_id' = polled
        /\ polled' = None
        /\ UNCHANGED <<s_cooldown_rpc_id, url, sent, issued, open, answered>>
    BY <1>3 DEF PollAccept, Mark
  <2> QED BY <2>1, <2>3, <2>4, <2>5
<1>4. CASE CooldownPasses
  BY <1>4, BoundsAssumption DEF CooldownPasses
<1>5. CASE PublishReceive
  BY <1>5, BoundsAssumption DEF PublishReceive
<1>6. CASE PublishRoute
  BY <1>6, BoundsAssumption DEF PublishRoute, AnswerId
<1>7. CASE Consume
  BY <1>7, BoundsAssumption DEF Consume
<1>8. CASE Post
  BY <1>8, BoundsAssumption DEF Post, NextItem
<1>9. CASE EnterCooldown
  BY <1>9, BoundsAssumption DEF EnterCooldown
<1>10. CASE Release
  BY <1>10, BoundsAssumption DEF Release, NextItem
<1>11. CASE http_post_payload
  BY <1>11, BoundsAssumption DEF http_post_payload, NextItem
<1>12. ASSUME NEW x \in Items, http_enqueue_telemetry(x) PROVE RpcIds'
  <2>1. sent' \in 0..MaxTelemetry
    BY <1>12, BoundsAssumption DEF http_enqueue_telemetry
  <2>2. down' \subseteq 1..issued
    BY <1>12 DEF http_enqueue_telemetry
  <2>3. UNCHANGED <<s_last_rpc_id, s_processing_rpc_id, s_cooldown_rpc_id,
                    polled, url, issued, open, answered, forwards>>
    BY <1>12 DEF http_enqueue_telemetry
  <2> QED BY <2>1, <2>2, <2>3
<1>13. ASSUME NEW r \in Rpcs, NoAnswer(r) PROVE RpcIds'
  BY <1>13, BoundsAssumption DEF NoAnswer
<1>14. ASSUME NEW r \in Rpcs, Settle(r) PROVE RpcIds'
  BY <1>14, BoundsAssumption DEF Settle
<1>15. CASE Issue
  BY <1>15, BoundsAssumption DEF Issue
<1>16. CASE UNCHANGED rpcVars
  BY <1>16 DEF rpcVars
<1> QED
  BY <1>1, <1>2, <1>3, <1>4, <1>5, <1>6, <1>7, <1>8, <1>9, <1>10, <1>11,
     <1>12, <1>13, <1>14, <1>15, <1>16
  DEF RpcNext, http_poll_rpc, http_publish_task

(* The queue stays within its size.                                        *)
LEMMA RpcQueueStep ==
  ASSUME RpcPoints, RpcIds, RpcQueue, [RpcNext]_rpcVars PROVE RpcQueue'
<1> USE DEF RpcQueue, guardVars, pollVars, pubVars, lanVars, srvVars, histVars,
            mixVars
<1>1. ASSUME NEW r \in Rpcs, PollCommand(r) PROVE RpcQueue'
  BY <1>1, SizeAssumption DEF PollCommand
<1>2. CASE PollFilter
  BY <1>2, SizeAssumption DEF PollFilter, Skipped
<1>3. CASE PollAccept
  BY <1>3, SizeAssumption DEF PollAccept
<1>4. CASE CooldownPasses
  BY <1>4, SizeAssumption DEF CooldownPasses
<1>5. CASE PublishReceive
  <2>1. Head(queue) \in Items /\ Len(Tail(queue)) <= HTTP_QUEUE_SIZE
        /\ Tail(queue) \in Seq(Items)
    BY <1>5, SizeAssumption DEF PublishReceive
  <2>2. None \notin Items
    BY DEF Items, Rpcs, None, Telemetry
  <2> QED BY <1>5, <2>1, <2>2 DEF PublishReceive
<1>6. CASE PublishRoute
  BY <1>6, SizeAssumption DEF PublishRoute, AnswerId
<1>7. CASE Consume
  BY <1>7, SizeAssumption DEF Consume
<1>8. CASE Post
  BY <1>8, SizeAssumption DEF Post, NextItem
<1>9. CASE EnterCooldown
  BY <1>9, SizeAssumption DEF EnterCooldown
<1>10. CASE Release
  BY <1>10, SizeAssumption DEF Release, NextItem
<1>11. CASE http_post_payload
  BY <1>11, SizeAssumption DEF http_post_payload, NextItem
<1>12. ASSUME NEW x \in Items, http_enqueue_telemetry(x) PROVE RpcQueue'
  <2>1. UNCHANGED <<item, pub>>
    BY <1>12 DEF http_enqueue_telemetry
  <2>2. CASE queue' = queue
    BY <2>1, <2>2
  <2>3. CASE queue' # queue
    <3>1. queue' = Append(queue, x) /\ Len(queue) < HTTP_QUEUE_SIZE
      BY <1>12, <2>3, SizeAssumption DEF http_enqueue_telemetry, QueueFull
    <3>2. queue' \in Seq(Items) /\ Len(queue') = Len(queue) + 1
      BY <3>1
    <3> QED BY <2>1, <3>1, <3>2, SizeAssumption
  <2> QED BY <2>2, <2>3
<1>13. ASSUME NEW r \in Rpcs, NoAnswer(r) PROVE RpcQueue'
  BY <1>13, SizeAssumption DEF NoAnswer
<1>14. ASSUME NEW r \in Rpcs, Settle(r) PROVE RpcQueue'
  BY <1>14, SizeAssumption DEF Settle
<1>15. CASE Issue
  BY <1>15, SizeAssumption DEF Issue
<1>16. CASE UNCHANGED rpcVars
  BY <1>16 DEF rpcVars
<1> QED
  BY <1>1, <1>2, <1>3, <1>4, <1>5, <1>6, <1>7, <1>8, <1>9, <1>10, <1>11,
     <1>12, <1>13, <1>14, <1>15, <1>16
  DEF RpcNext, http_poll_rpc, http_publish_task

(* One command at a time is in flight unless commands overlap.             *)
LEMMA FlightStep ==
  ASSUME RpcFlags, RpcPoints, RpcIds, RpcQueue, Flight, [RpcNext]_rpcVars
         PROVE Flight'
<1> USE DEF RpcFlags, RpcPoints, RpcIds, RpcQueue, Flight, Posting, Rpcs,
            None, Items, Telemetry, guardVars, pollVars, pubVars,
            lanVars, srvVars, histVars, mixVars
<1>1. ASSUME NEW r \in Rpcs, PollCommand(r) PROVE Flight'
  BY <1>1 DEF PollCommand
<1>2. CASE PollFilter
  BY <1>2 DEF PollFilter, Skipped
<1>3. CASE PollAccept
  BY <1>3 DEF PollAccept, Mark
<1>4. CASE CooldownPasses
  BY <1>4 DEF CooldownPasses
<1>5. CASE PublishReceive
  BY <1>5 DEF PublishReceive
<1>6. CASE PublishRoute
  BY <1>6 DEF PublishRoute, AnswerId
<1>7. CASE Consume
  BY <1>7 DEF Consume
<1>8. CASE Post
  BY <1>8 DEF Post, NextItem
<1>9. CASE EnterCooldown
  BY <1>9 DEF EnterCooldown
<1>10. CASE Release
  BY <1>10 DEF Release, NextItem
<1>11. CASE http_post_payload
  BY <1>11 DEF http_post_payload, NextItem
<1>12. ASSUME NEW x \in Items, http_enqueue_telemetry(x) PROVE Flight'
  BY <1>12 DEF http_enqueue_telemetry, QueueFull
<1>13. ASSUME NEW r \in Rpcs, NoAnswer(r) PROVE Flight'
  BY <1>13 DEF NoAnswer
<1>14. ASSUME NEW r \in Rpcs, Settle(r) PROVE Flight'
  BY <1>14 DEF Settle
<1>15. CASE Issue
  BY <1>15 DEF Issue
<1>16. CASE UNCHANGED rpcVars
  BY <1>16 DEF rpcVars
<1> QED
  BY <1>1, <1>2, <1>3, <1>4, <1>5, <1>6, <1>7, <1>8, <1>9, <1>10, <1>11,
     <1>12, <1>13, <1>14, <1>15, <1>16
  DEF RpcNext, http_poll_rpc, http_publish_task

(* The two guards cover a forwarded command until it is offered no more.   *)
LEMMA GuardedStep ==
  ASSUME RpcFlags, RpcPoints, RpcIds, RpcQueue, Flight, Guarded,
         [RpcNext]_rpcVars PROVE Guarded'
<1> USE DEF RpcFlags, RpcPoints, RpcIds, RpcQueue, Flight, Guarded, Offered,
            Posting, Rpcs, None, Items, Telemetry, guardVars,
            pollVars, pubVars, lanVars, srvVars, histVars, mixVars
<1>1. ASSUME NEW r \in Rpcs, PollCommand(r) PROVE Guarded'
  BY <1>1, BoundsAssumption DEF PollCommand
<1>2. CASE PollFilter
  BY <1>2, BoundsAssumption DEF PollFilter, Skipped
<1>3. CASE PollAccept
  BY <1>3, BoundsAssumption DEF PollAccept, Mark
<1>4. CASE CooldownPasses
  BY <1>4, BoundsAssumption DEF CooldownPasses
<1>5. CASE PublishReceive
  BY <1>5, BoundsAssumption DEF PublishReceive
<1>6. CASE PublishRoute
  BY <1>6, BoundsAssumption DEF PublishRoute, AnswerId
<1>7. CASE Consume
  BY <1>7, BoundsAssumption DEF Consume
<1>8. CASE Post
  BY <1>8, BoundsAssumption DEF Post, NextItem
<1>9. CASE EnterCooldown
  BY <1>9, BoundsAssumption DEF EnterCooldown
<1>10. CASE Release
  BY <1>10, BoundsAssumption DEF Release, NextItem
<1>11. CASE http_post_payload
  BY <1>11, BoundsAssumption DEF http_post_payload, NextItem
<1>12. ASSUME NEW x \in Items, http_enqueue_telemetry(x) PROVE Guarded'
  BY <1>12, BoundsAssumption DEF http_enqueue_telemetry, QueueFull
<1>13. ASSUME NEW r \in Rpcs, NoAnswer(r) PROVE Guarded'
  BY <1>13, BoundsAssumption DEF NoAnswer
<1>14. ASSUME NEW r \in Rpcs, Settle(r) PROVE Guarded'
  BY <1>14, BoundsAssumption DEF Settle
<1>15. CASE Issue
  BY <1>15, BoundsAssumption DEF Issue
<1>16. CASE UNCHANGED rpcVars
  BY <1>16 DEF rpcVars
<1> QED
  BY <1>1, <1>2, <1>3, <1>4, <1>5, <1>6, <1>7, <1>8, <1>9, <1>10, <1>11,
     <1>12, <1>13, <1>14, <1>15, <1>16
  DEF RpcNext, http_poll_rpc, http_publish_task

(* The answer stays first in line.                                         *)
LEMMA AnswerFirstStep ==
  ASSUME RpcFlags, RpcPoints, RpcIds, RpcQueue, Flight, AnswerFirst,
         [RpcNext]_rpcVars PROVE AnswerFirst'
<1> USE DEF RpcFlags, RpcPoints, RpcIds, RpcQueue, Flight, AnswerFirst,
            Posting, Rpcs, None, Items, Telemetry, guardVars, pollVars,
            pubVars, lanVars, srvVars, histVars, mixVars
<1>1. ASSUME NEW r \in Rpcs, PollCommand(r) PROVE AnswerFirst'
  BY <1>1 DEF PollCommand
<1>2. CASE PollFilter
  BY <1>2 DEF PollFilter, Skipped
<1>3. CASE PollAccept
  <2> SUFFICES ASSUME ~overlap', ~mixed' PROVE AnswerFirst'
    OBVIOUS
  <2>1. polled \in Rpcs /\ polled # None /\ s_processing_rpc_id = None
    BY <1>3, PolledIssued DEF PollAccept
  <2>2. ~overlap /\ ~mixed /\ ~TelemetryUnderWay
    BY <1>3 DEF PollAccept
  <2>3. s_last_rpc_id = None /\ pub \notin Posting /\ down = {}
    BY <2>1, <2>2
  <2>4. \A k \in DOMAIN queue : queue[k] = Telemetry
    BY <2>1, <2>2, <2>3
  <2>5. queue = <<>>
    BY <2>2, <2>4 DEF TelemetryUnderWay
  <2>6. pub # "route"
    BY <2>2, <2>3 DEF TelemetryUnderWay
  <2>7. /\ s_last_rpc_id' = polled /\ s_processing_rpc_id' = polled
        /\ down' \subseteq {polled} /\ unanswered'
        /\ UNCHANGED <<queue, pub, item, url>>
    BY <1>3, <2>3 DEF PollAccept, Mark
  <2> QED BY <2>1, <2>3, <2>5, <2>6, <2>7
<1>4. CASE CooldownPasses
  BY <1>4 DEF CooldownPasses
<1>5. CASE PublishReceive
  BY <1>5 DEF PublishReceive
<1>6. CASE PublishRoute
  BY <1>6 DEF PublishRoute, AnswerId
<1>7. CASE Consume
  BY <1>7 DEF Consume
<1>8. CASE Post
  BY <1>8 DEF Post, NextItem
<1>9. CASE EnterCooldown
  BY <1>9 DEF EnterCooldown
<1>10. CASE Release
  BY <1>10 DEF Release, NextItem
<1>11. CASE http_post_payload
  BY <1>11 DEF http_post_payload, NextItem
<1>12. ASSUME NEW x \in Items, http_enqueue_telemetry(x) PROVE AnswerFirst'
  <2> SUFFICES ASSUME ~overlap', ~mixed' PROVE AnswerFirst'
    OBVIOUS
  <2>1. /\ ~overlap /\ ~mixed /\ down' \subseteq down
        /\ UNCHANGED <<s_last_rpc_id, s_processing_rpc_id, pub, item, url>>
    BY <1>12 DEF http_enqueue_telemetry
  <2>2. CASE UNCHANGED <<queue, mixVars>>
    BY <2>1, <2>2
  <2>3. CASE ~UNCHANGED <<queue, mixVars>>
    <3>1. /\ queue' = Append(queue, x)
          /\ unanswered' = (unanswered /\ x = Telemetry)
          /\ mixed' = (mixed \/ (x = Telemetry /\ unanswered))
      BY <1>12, <2>3 DEF http_enqueue_telemetry
    <3>2. CASE x = Telemetry
      <4>1. ~unanswered /\ ~unanswered' /\ down' = {}
        BY <2>1, <3>1, <3>2
      <4>2. /\ \A k \in DOMAIN queue' :
                 \/ queue'[k] = Telemetry
                 \/ k \in DOMAIN queue /\ queue'[k] = queue[k]
            /\ queue # <<>> => queue' # <<>> /\ queue'[1] = queue[1]
        BY <3>1, <3>2
      <4> QED BY <2>1, <4>1, <4>2
    <3>3. CASE x # Telemetry
      <4>1. x \in down /\ down' = down \ {x}
        BY <1>12, <3>3 DEF http_enqueue_telemetry
      <4>2. /\ unanswered /\ x = s_last_rpc_id /\ down' = {}
            /\ queue = <<>> /\ ~unanswered'
        BY <2>1, <3>1, <3>3, <4>1
      <4>3. queue' = <<x>>
        BY <3>1, <4>2
      <4>4. DOMAIN queue' = {1} /\ queue'[1] = x /\ queue' # <<>>
        BY <4>3
      <4> QED BY <2>1, <3>3, <4>2, <4>4
    <3> QED BY <3>2, <3>3
  <2> QED BY <2>2, <2>3
<1>13. ASSUME NEW r \in Rpcs, NoAnswer(r) PROVE AnswerFirst'
  BY <1>13 DEF NoAnswer
<1>14. ASSUME NEW r \in Rpcs, Settle(r) PROVE AnswerFirst'
  BY <1>14 DEF Settle
<1>15. CASE Issue
  BY <1>15 DEF Issue
<1>16. CASE UNCHANGED rpcVars
  BY <1>16 DEF rpcVars
<1> QED
  BY <1>1, <1>2, <1>3, <1>4, <1>5, <1>6, <1>7, <1>8, <1>9, <1>10, <1>11,
     <1>12, <1>13, <1>14, <1>15, <1>16
  DEF RpcNext, http_poll_rpc, http_publish_task

(* Only a failure leaves a command in flight for good.                     *)
LEMMA AwaitedStep ==
  ASSUME RpcFlags, RpcPoints, RpcIds, RpcQueue, Flight, Awaited,
         [RpcNext]_rpcVars PROVE Awaited'
<1> USE DEF RpcFlags, RpcPoints, RpcIds, RpcQueue, Flight, Awaited, Posting,
            Rpcs, None, Items, Telemetry, guardVars, pollVars,
            pubVars, lanVars, srvVars, histVars, mixVars
<1>1. ASSUME NEW r \in Rpcs, PollCommand(r) PROVE Awaited'
  BY <1>1 DEF PollCommand
<1>2. CASE PollFilter
  BY <1>2 DEF PollFilter, Skipped
<1>3. CASE PollAccept
  BY <1>3 DEF PollAccept, Mark
<1>4. CASE CooldownPasses
  BY <1>4 DEF CooldownPasses
<1>5. CASE PublishReceive
  BY <1>5 DEF PublishReceive
<1>6. CASE PublishRoute
  BY <1>6 DEF PublishRoute, AnswerId
<1>7. CASE Consume
  BY <1>7 DEF Consume
<1>8. CASE Post
  BY <1>8 DEF Post, NextItem
<1>9. CASE EnterCooldown
  BY <1>9 DEF EnterCooldown
<1>10. CASE Release
  BY <1>10 DEF Release, NextItem
<1>11. CASE http_post_payload
  BY <1>11 DEF http_post_payload, NextItem
<1>12. ASSUME NEW x \in Items, http_enqueue_telemetry(x) PROVE Awaited'
  BY <1>12 DEF http_enqueue_telemetry, QueueFull
<1>13. ASSUME NEW r \in Rpcs, NoAnswer(r) PROVE Awaited'
  BY <1>13 DEF NoAnswer
<1>14. ASSUME NEW r \in Rpcs, Settle(r) PROVE Awaited'
  BY <1>14 DEF Settle
<1>15. CASE Issue
  BY <1>15 DEF Issue
<1>16. CASE UNCHANGED rpcVars
  BY <1>16 DEF rpcVars
<1> QED
  BY <1>1, <1>2, <1>3, <1>4, <1>5, <1>6, <1>7, <1>8, <1>9, <1>10, <1>11,
     <1>12, <1>13, <1>14, <1>15, <1>16
  DEF RpcNext, http_poll_rpc, http_publish_task

(* A command that passes the filter has not been forwarded.                *)
LEMMA ForwardedOnceStep ==
  ASSUME RpcFlags, RpcPoints, RpcIds, RpcQueue, Guarded, ForwardedOnce,
         [RpcNext]_rpcVars PROVE ForwardedOnce'
<1> USE DEF RpcIds, RpcPoints, ForwardedOnce, Rpcs, guardVars, pollVars,
            pubVars, lanVars, srvVars, histVars, mixVars
<1>1. ASSUME NEW r \in Rpcs, PollCommand(r) PROVE ForwardedOnce'
  BY <1>1 DEF PollCommand
<1>2. CASE PollFilter
  BY <1>2 DEF PollFilter, Skipped
<1>3. CASE PollAccept
  <2> SUFFICES ASSUME ~overlap' PROVE ForwardedOnce'
    OBVIOUS
  <2>1. polled \in Rpcs /\ polled # None /\ ~overlap
    BY <1>3, PolledIssued DEF PollAccept
  <2>2. polled \in Offered
    BY <2>1 DEF Offered
  <2>3. forwards[polled] = 0
    BY <1>3, <2>1, <2>2 DEF PollAccept, Guarded
  <2>4. \A r \in Rpcs : forwards[r] <= 1
    BY <2>1
  <2>5. CASE forwards' = forwards
    BY <2>4, <2>5
  <2>6. CASE forwards' = [forwards EXCEPT ![polled] = 1]
    <3>1. \A r \in Rpcs : forwards'[r] = IF r = polled THEN 1 ELSE forwards[r]
      BY <2>6
    <3> QED BY <2>4, <3>1
  <2> QED BY <1>3, <2>3, <2>5, <2>6 DEF PollAccept
<1>4. CASE CooldownPasses
  BY <1>4 DEF CooldownPasses
<1>5. CASE PublishReceive
  BY <1>5 DEF PublishReceive
<1>6. CASE PublishRoute
  BY <1>6 DEF PublishRoute, AnswerId
<1>7. CASE Consume
  BY <1>7 DEF Consume
<1>8. CASE Post
  BY <1>8 DEF Post, NextItem
<1>9. CASE EnterCooldown
  BY <1>9 DEF EnterCooldown
<1>10. CASE Release
  BY <1>10 DEF Release, NextItem
<1>11. CASE http_post_payload
  BY <1>11 DEF http_post_payload, NextItem
<1>12. ASSUME NEW x \in Items, http_enqueue_telemetry(x) PROVE ForwardedOnce'
  BY <1>12 DEF http_enqueue_telemetry, QueueFull
<1>13. ASSUME NEW r \in Rpcs, NoAnswer(r) PROVE ForwardedOnce'
  BY <1>13 DEF NoAnswer
<1>14. ASSUME NEW r \in Rpcs, Settle(r) PROVE ForwardedOnce'
  BY <1>14 DEF Settle
<1>15. CASE Issue
  BY <1>15 DEF Issue
<1>16. CASE UNCHANGED rpcVars
  BY <1>16 DEF rpcVars
<1> QED
  BY <1>1, <1>2, <1>3, <1>4, <1>5, <1>6, <1>7, <1>8, <1>9, <1>10, <1>11,
     <1>12, <1>13, <1>14, <1>15, <1>16
  DEF RpcNext, http_poll_rpc, http_publish_task

(* Only the answer to a command is posted to it.                           *)
LEMMA RightAnswerStep ==
  ASSUME RpcFlags, AnswerFirst, [RpcNext]_rpcVars
  PROVE  answered' # answered => item = url \/ overlap \/ mixed
<1> DEFINE Goal == answered' # answered => item = url \/ overlap \/ mixed
<1> USE DEF AnswerFirst, RpcFlags, guardVars, pollVars, pubVars,
            lanVars, srvVars, histVars, mixVars
<1>1. ASSUME NEW r \in Rpcs, PollCommand(r) PROVE Goal
  BY <1>1 DEF PollCommand
<1>2. CASE PollFilter
  BY <1>2 DEF PollFilter, Skipped
<1>3. CASE PollAccept
  BY <1>3 DEF PollAccept, Mark
<1>4. CASE CooldownPasses
  BY <1>4 DEF CooldownPasses
<1>5. CASE PublishReceive
  BY <1>5 DEF PublishReceive
<1>6. CASE PublishRoute
  BY <1>6 DEF PublishRoute, AnswerId
<1>7. CASE Consume
  BY <1>7 DEF Consume
<1>8. CASE Post
  BY <1>8 DEF Post, NextItem
<1>9. CASE EnterCooldown
  BY <1>9 DEF EnterCooldown
<1>10. CASE Release
  BY <1>10 DEF Release, NextItem
<1>11. CASE http_post_payload
  BY <1>11 DEF http_post_payload, NextItem
<1>12. ASSUME NEW x \in Items, http_enqueue_telemetry(x) PROVE Goal
  BY <1>12 DEF http_enqueue_telemetry, QueueFull
<1>13. ASSUME NEW r \in Rpcs, NoAnswer(r) PROVE Goal
  BY <1>13 DEF NoAnswer
<1>14. ASSUME NEW r \in Rpcs, Settle(r) PROVE Goal
  BY <1>14 DEF Settle
<1>15. CASE Issue
  BY <1>15 DEF Issue
<1>16. CASE UNCHANGED rpcVars
  BY <1>16 DEF rpcVars
<1> QED
  BY <1>1, <1>2, <1>3, <1>4, <1>5, <1>6, <1>7, <1>8, <1>9, <1>10, <1>11,
     <1>12, <1>13, <1>14, <1>15, <1>16
  DEF RpcNext, http_poll_rpc, http_publish_task

(* The guard is set with the command's cause and released with it.         *)
LEMMA GuardHasCauseStep ==
  ASSUME RpcFlags, RpcPoints, RpcIds, RpcQueue, Flight, Awaited,
         GuardHasCause, [RpcNext]_rpcVars PROVE GuardHasCause'
<1> USE DEF RpcFlags, RpcPoints, RpcIds, RpcQueue, Flight, Awaited,
            GuardHasCause, AnswerUnderWay, Posting, Rpcs, None, Items,
            Telemetry, guardVars, pollVars, pubVars, lanVars,
            srvVars, histVars, mixVars
<1>1. ASSUME NEW r \in Rpcs, PollCommand(r) PROVE GuardHasCause'
  BY <1>1 DEF PollCommand
<1>2. CASE PollFilter
  BY <1>2 DEF PollFilter, Skipped
<1>3. CASE PollAccept
  BY <1>3 DEF PollAccept, Mark
<1>4. CASE CooldownPasses
  BY <1>4 DEF CooldownPasses
<1>5. CASE PublishReceive
  BY <1>5 DEF PublishReceive
<1>6. CASE PublishRoute
  BY <1>6 DEF PublishRoute, AnswerId
<1>7. CASE Consume
  BY <1>7 DEF Consume
<1>8. CASE Post
  BY <1>8 DEF Post, NextItem
<1>9. CASE EnterCooldown
  BY <1>9 DEF EnterCooldown
<1>10. CASE Release
  BY <1>10 DEF Release, NextItem
<1>11. CASE http_post_payload
  BY <1>11 DEF http_post_payload, NextItem
<1>12. ASSUME NEW x \in Items, http_enqueue_telemetry(x) PROVE GuardHasCause'
  <2> SUFFICES ASSUME ~overlap', ~lost' PROVE GuardHasCause'
    OBVIOUS
  <2>1. /\ ~overlap /\ ~lost /\ down \ {x} \subseteq down'
        /\ UNCHANGED <<s_processing_rpc_id, s_last_rpc_id, url, pub>>
    BY <1>12 DEF http_enqueue_telemetry
  <2>2. queue' = Append(queue, x)
    BY <1>12, <2>1 DEF http_enqueue_telemetry
  <2>3. \A k \in DOMAIN queue : k \in DOMAIN queue' /\ queue'[k] = queue[k]
    BY <2>2
  <2>4. Len(queue) + 1 \in DOMAIN queue' /\ queue'[Len(queue) + 1] = x
    BY <2>2
  <2> SUFFICES ASSUME NEW r \in {s_processing_rpc_id} \ {None}
               PROVE  \/ r \in down' \/ AnswerUnderWay(r)'
                      \/ \E k \in DOMAIN queue' : queue'[k] = r
    BY <2>1
  <2>5. CASE r = x
    BY <2>1, <2>4, <2>5
  <2>6. CASE r # x
    BY <2>1, <2>3, <2>6
  <2> QED BY <2>5, <2>6
<1>13. ASSUME NEW r \in Rpcs, NoAnswer(r) PROVE GuardHasCause'
  BY <1>13 DEF NoAnswer
<1>14. ASSUME NEW r \in Rpcs, Settle(r) PROVE GuardHasCause'
  BY <1>14 DEF Settle
<1>15. CASE Issue
  BY <1>15 DEF Issue
<1>16. CASE UNCHANGED rpcVars
  BY <1>16 DEF rpcVars
<1> QED
  BY <1>1, <1>2, <1>3, <1>4, <1>5, <1>6, <1>7, <1>8, <1>9, <1>10, <1>11,
     <1>12, <1>13, <1>14, <1>15, <1>16
  DEF RpcNext, http_poll_rpc, http_publish_task

(* The invariant is inductive.                                             *)
LEMMA RpcInductive == ASSUME RpcInv, [RpcNext]_rpcVars PROVE RpcInv'
  BY RpcFlagsStep, RpcPointsStep, RpcIdsStep, RpcQueueStep, FlightStep,
     GuardedStep, AnswerFirstStep, AwaitedStep, ForwardedOnceStep,
     GuardHasCauseStep
  DEF RpcInv

(* The invariant holds in every state.                                     *)
LEMMA RpcAlways == RpcSpec => []RpcInv
  BY RpcInitInv, RpcInductive, PTL DEF RpcSpec

(* Every variable of the RPC commands keeps its type: the queue does not   *)
(* outgrow HTTP_QUEUE_SIZE, and every id is that of a command of the       *)
(* server's.                                                               *)
THEOREM RpcTypeCorrect == RpcSpec => []RpcTypeOK
<1>1. RpcInv => RpcTypeOK
  <2> SUFFICES ASSUME RpcInv PROVE RpcTypeOK
    OBVIOUS
  <2> USE DEF RpcInv, RpcFlags, RpcPoints, RpcIds, RpcQueue
  <2>1. 1..issued \subseteq Rpcs
    BY BoundsAssumption DEF Rpcs
  <2>2. /\ {s_last_rpc_id, s_processing_rpc_id, s_cooldown_rpc_id, polled,
            url} \subseteq {None} \cup Rpcs
        /\ down \subseteq Rpcs
    BY <2>1
  <2>3. {cooldown_over, overlap, unanswered, mixed, lost} \subseteq BOOLEAN
    OBVIOUS
  <2> QED BY <2>2, <2>3 DEF RpcTypeOK, Posting
<1> QED BY RpcAlways, <1>1, PTL

(* http_poll_rpc does not forward a command twice, whenever its answer     *)
(* gets to the server's list, as long as commands come one at a time and   *)
(* that list is updated within RPC_ID_COOLDOWN_TICKS; for any number of    *)
(* commands and any size of the queue.                                     *)
THEOREM RpcForwardedOnce == RpcSpec => []ForwardedOnce
<1>1. RpcInv => ForwardedOnce
  BY DEF RpcInv
<1> QED BY RpcAlways, <1>1, PTL

(* What http_publish_task posts as the answer to a command, and the server *)
(* takes, is the LAN MCU's answer to it, whatever POSTs fail and whatever  *)
(* is dropped; unless commands overlapped, or telemetry was on its way to  *)
(* the task when a command was accepted or came before its answer.         *)
THEOREM RpcRightAnswer == RpcSpec => RightAnswer
<1>1. RpcInv /\ [RpcNext]_rpcVars =>
        [answered' # answered => item = url \/ overlap \/ mixed]_rpcVars
  BY RightAnswerStep DEF RpcInv
<1> QED BY RpcAlways, <1>1, PTL DEF RpcSpec, RightAnswer

(* s_processing_rpc_id does not outlive its command unless something was   *)
(* dropped or failed: the LAN MCU has the command, its answer is queued or *)
(* is being posted; and s_last_rpc_id never differs from it.               *)
THEOREM RpcGuardHasCause == RpcSpec => []GuardHasCause
<1>1. RpcInv => GuardHasCause
  BY DEF RpcInv
<1> QED BY RpcAlways, <1>1, PTL
=============================================================================

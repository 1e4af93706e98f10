------------------------- MODULE StorageUploadProofs -------------------------
(***************************************************************************)
(* Safety of the storage services and the refinement of UploadCall, for    *)
(* any payloads, attempts and times within UploadAssumption. The invariant *)
(* says, for every place of a call, what is open, what is stored and how   *)
(* much of the token's life is left after the attempts made so far.        *)
(***************************************************************************)
EXTENDS StorageUpload, Integers, TLAPS

\* Which places a call of each kind can be at.
PlaceInv ==
  /\ service \in HTTP \cup {"custom"}
  /\ mode \in {"new", "test", "ready", "failed"}
  /\ pc \in {"idle", "open", "stat"} \cup Request
  /\ attempt \in 0..Attempts /\ (pc \in Request => attempt # 0)
  /\ progress \in {"sent", "acted", "answered"}
  /\ payload \in Payload \cup {None} /\ tar \subseteq Payload
  /\ result \in {"none", "ok", "error"}
  /\ pc = "idle" => attempt = 0 /\ payload = None
  /\ progress # "sent" => pc \in {"login", "presign", "put"}
  /\ progress = "acted" => pc = "put"
  /\ progress = "answered" => service \in HTTP
  /\ mode \in {"new", "failed"} => pc = "idle"
  /\ mode = "test" => payload = None /\ pc \in {"login", "presign", "probe"}
  /\ mode = "ready" /\ pc # "idle" => payload \in Payload /\ pc # "probe"

\* The tar is open from OpenTar until the request has ended, an answer from then on.
OpenInv ==
  /\ files = IF pc = "stat" \/ (pc = "put" /\ progress # "answered") THEN 1 ELSE 0
  /\ bodies = IF progress = "answered" THEN 1 ELSE 0

\* Every PUT carries a whole body, and is answered only when it has been acted on.
StoreInv ==
  /\ body \in {"whole", "used"} /\ landed \in BOOLEAN
  /\ object \in [Payload -> {"none", "whole"}]
  /\ pc = "put" => body = "whole"
  /\ landed => pc = "put"
  /\ pc = "put" /\ progress # "sent" => landed

\* Each attempt made so far has cost at most a timeout and a back-off.
TokenInv ==
  /\ token \in BOOLEAN /\ left \in 0..Life
  /\ pc = "login" /\ progress = "answered" => left >= Buffer
  /\ service = "frontdoor" /\ pc = "presign" /\ progress # "answered" =>
       token /\ left + (attempt - 1) * (Timeout + Backoff) >= Buffer

UInv == PlaceInv /\ OpenInv /\ StoreInv /\ TokenInv

-----------------------------------------------------------------------------
(* Arithmetic of the token.                                                *)

\* The life a token keeps over an attempt.
LEMMA ElapsesKeeps ==
  ASSUME NEW most \in Nat, left \in 0..Life, Elapses(most)
  PROVE  left' \in 0..Life /\ left' >= left - most
  BY UploadAssumption DEF Elapses

\* After at most all attempts something is left of the buffer.
LEMMA BufferLasts ==
  ASSUME NEW a \in 1..Attempts
  PROVE  (a - 1) * (Timeout + Backoff) < Buffer
<1> DEFINE D == Timeout + Backoff
<1>1. D \in Nat /\ Attempts * D < Buffer
  BY UploadAssumption
<1>2. PICK k \in Nat : Attempts = (a - 1) + k
  <2>1. Attempts - (a - 1) \in Nat /\ Attempts = (a - 1) + (Attempts - (a - 1))
    BY UploadAssumption
  <2> QED  BY <2>1
<1>3. \A m, n \in Nat : (m + n) * D = m * D + n * D /\ m * D \in Nat /\ n * D \in Nat
  BY <1>1
<1>4. a - 1 \in Nat
  OBVIOUS
<1>5. ((a - 1) + k) * D = (a - 1) * D + k * D /\ (a - 1) * D \in Nat /\ k * D \in Nat
  BY <1>2, <1>3, <1>4
<1>6. Buffer \in Nat
  BY UploadAssumption
<1> QED
  BY <1>1, <1>2, <1>5, <1>6

-----------------------------------------------------------------------------
(* Each part of the invariant, action by action.                           *)

\* A step keeps the calls at their places.
LEMMA PlaceKept ==
  ASSUME PlaceInv, [Next]_vars
  PROVE  PlaceInv'
<1> USE UploadAssumption DEF PlaceInv, HTTP, Request, vars, tokenVars, openVars, storeVars
<1>1. CASE NewService
  BY <1>1 DEF NewService, Send, FirstRequest
<1>2. CASE PutActs
  BY <1>2 DEF PutActs
<1>3. CASE Answered
  BY <1>3 DEF Answered, Waiting, ClosedByTransport, Elapses
<1>4. CASE Retry
  BY <1>4 DEF Retry, Waiting, LastAttempt, NextAttempt, Rewind, ClosedByTransport, Elapses
<1>5. CASE Exhausted
  BY <1>5 DEF Exhausted, Waiting, LastAttempt, ClosedByTransport, Elapses, GiveUp, Return
<1>6. CASE SecretFails
  BY <1>6 DEF SecretFails, GiveUp, Return
<1>7. CASE ReadAnswer
  BY <1>7 DEF ReadAnswer, CloseAnswer, Send
<1>8. CASE BadAnswer
  BY <1>8 DEF BadAnswer, CloseAnswer, GiveUp, Return
<1>9. CASE ProbeForbidden \/ ProbeUnsent
  BY <1>9 DEF ProbeForbidden, ProbeUnsent, Return
<1>10. CASE ProbeFails
  BY <1>10 DEF ProbeFails, LastAttempt, NextAttempt, Return
<1>11. CASE OpenTar
  BY <1>11 DEF OpenTar
<1>12. CASE OpenFails
  BY <1>12 DEF OpenFails, Return
<1>13. CASE StatTar
  BY <1>13 DEF StatTar, Send
<1>14. CASE StatFails \/ RequestFails \/ KeyFails
  BY <1>14 DEF StatFails, RequestFails, KeyFails, CloseTar, Return
<1>15. CASE PutAnswered
  BY <1>15 DEF PutAnswered, CloseAnswer, Return
<1>16. CASE LibraryReturns
  BY <1>16 DEF LibraryReturns, Return
<1>17. CASE TokenAges
  BY <1>17 DEF TokenAges
<1>18. CASE TarVanishes
  BY <1>18 DEF TarVanishes
<1>19. ASSUME NEW p \in Payload, Upload(p)  PROVE PlaceInv'
  BY <1>19 DEF Upload, Send, FirstRequest, TokenUsable
<1>20. CASE UNCHANGED vars
  BY <1>20
<1> QED
  BY <1>1, <1>2, <1>3, <1>4, <1>5, <1>6, <1>7, <1>8, <1>9, <1>10,
     <1>11, <1>12, <1>13, <1>14, <1>15, <1>16, <1>17, <1>18, <1>19, <1>20 DEF Next, CallStep

\* A step opens and closes what the place it leads to has open.
LEMMA OpenKept ==
  ASSUME PlaceInv, OpenInv, [Next]_vars
  PROVE  OpenInv'
<1> USE UploadAssumption DEF PlaceInv, OpenInv, HTTP, Request, vars, tokenVars, openVars, storeVars
<1>1. CASE NewService
  BY <1>1 DEF NewService, Send, FirstRequest
<1>2. CASE PutActs
  BY <1>2 DEF PutActs
<1>3. CASE Answered
  BY <1>3 DEF Answered, Waiting, ClosedByTransport, Elapses
<1>4. CASE Retry
  BY <1>4 DEF Retry, Waiting, LastAttempt, NextAttempt, Rewind, ClosedByTransport, Elapses
<1>5. CASE Exhausted
  BY <1>5 DEF Exhausted, Waiting, LastAttempt, ClosedByTransport, Elapses, GiveUp, Return
<1>6. CASE SecretFails
  BY <1>6 DEF SecretFails, GiveUp, Return
<1>7. CASE ReadAnswer
  BY <1>7 DEF ReadAnswer, CloseAnswer, Send
<1>8. CASE BadAnswer
  BY <1>8 DEF BadAnswer, CloseAnswer, GiveUp, Return
<1>9. CASE ProbeForbidden \/ ProbeUnsent
  BY <1>9 DEF ProbeForbidden, ProbeUnsent, Return
<1>10. CASE ProbeFails
  BY <1>10 DEF ProbeFails, LastAttempt, NextAttempt, Return
<1>11. CASE OpenTar
  BY <1>11 DEF OpenTar
<1>12. CASE OpenFails
  BY <1>12 DEF OpenFails, Return
<1>13. CASE StatTar
  BY <1>13 DEF StatTar, Send
<1>14. CASE StatFails \/ RequestFails \/ KeyFails
  BY <1>14 DEF StatFails, RequestFails, KeyFails, CloseTar, Return
<1>15. CASE PutAnswered
  BY <1>15 DEF PutAnswered, CloseAnswer, Return
<1>16. CASE LibraryReturns
  BY <1>16 DEF LibraryReturns, Return
<1>17. CASE TokenAges
  BY <1>17 DEF TokenAges
<1>18. CASE TarVanishes
  BY <1>18 DEF TarVanishes
<1>19. ASSUME NEW p \in Payload, Upload(p)  PROVE OpenInv'
  BY <1>19 DEF Upload, Send, FirstRequest, TokenUsable
<1>20. CASE UNCHANGED vars
  BY <1>20
<1> QED
  BY <1>1, <1>2, <1>3, <1>4, <1>5, <1>6, <1>7, <1>8, <1>9, <1>10,
     <1>11, <1>12, <1>13, <1>14, <1>15, <1>16, <1>17, <1>18, <1>19, <1>20 DEF Next, CallStep

\* Only whole bodies are sent, and so stored.
LEMMA StoreKept ==
  ASSUME PlaceInv, StoreInv, [Next]_vars
  PROVE  StoreInv'
<1> USE UploadAssumption DEF PlaceInv, StoreInv, HTTP, Request, vars, tokenVars, openVars, storeVars
<1>1. CASE NewService
  BY <1>1 DEF NewService, Send, FirstRequest
<1>2. CASE PutActs
  BY <1>2 DEF PutActs
<1>3. CASE Answered
  BY <1>3 DEF Answered, Waiting, ClosedByTransport, Elapses
<1>4. CASE Retry
  BY <1>4 DEF Retry, Waiting, LastAttempt, NextAttempt, Rewind, ClosedByTransport, Elapses
<1>5. CASE Exhausted
  BY <1>5 DEF Exhausted, Waiting, LastAttempt, ClosedByTransport, Elapses, GiveUp, Return
<1>6. CASE SecretFails
  BY <1>6 DEF SecretFails, GiveUp, Return
<1>7. CASE ReadAnswer
  BY <1>7 DEF ReadAnswer, CloseAnswer, Send
<1>8. CASE BadAnswer
  BY <1>8 DEF BadAnswer, CloseAnswer, GiveUp, Return
<1>9. CASE ProbeForbidden \/ ProbeUnsent
  BY <1>9 DEF ProbeForbidden, ProbeUnsent, Return
<1>10. CASE ProbeFails
  <2>1. pc = "probe" /\ object' = object
    BY <1>10 DEF ProbeFails
  <2>2. CASE LastAttempt
    BY <1>10, <2>1, <2>2 DEF ProbeFails, Return
  <2>3. CASE ~LastAttempt
    BY <1>10, <2>1, <2>3 DEF ProbeFails
  <2> QED  BY <2>2, <2>3
<1>11. CASE OpenTar
  BY <1>11 DEF OpenTar
<1>12. CASE OpenFails
  BY <1>12 DEF OpenFails, Return
<1>13. CASE StatTar
  BY <1>13 DEF StatTar, Send
<1>14. CASE StatFails \/ RequestFails \/ KeyFails
  BY <1>14 DEF StatFails, RequestFails, KeyFails, CloseTar, Return
<1>15. CASE PutAnswered
  BY <1>15 DEF PutAnswered, CloseAnswer, Return
<1>16. CASE LibraryReturns
  BY <1>16 DEF LibraryReturns, Return
<1>17. CASE TokenAges
  BY <1>17 DEF TokenAges
<1>18. CASE TarVanishes
  BY <1>18 DEF TarVanishes
<1>19. ASSUME NEW p \in Payload, Upload(p)  PROVE StoreInv'
  BY <1>19 DEF Upload, Send, FirstRequest, TokenUsable
<1>20. CASE UNCHANGED vars
  BY <1>20
<1> QED
  BY <1>1, <1>2, <1>3, <1>4, <1>5, <1>6, <1>7, <1>8, <1>9, <1>10,
     <1>11, <1>12, <1>13, <1>14, <1>15, <1>16, <1>17, <1>18, <1>19, <1>20 DEF Next, CallStep

\* A token that is used for a request stays valid through its attempts.
LEMMA TokenKept ==
  ASSUME PlaceInv, TokenInv, [Next]_vars
  PROVE  TokenInv'
<1> DEFINE D == Timeout + Backoff
<1> USE UploadAssumption DEF PlaceInv, TokenInv, HTTP, Request, vars, tokenVars
<1>0. D \in Nat /\ (1 - 1) * D = 0
  OBVIOUS
<1> HIDE DEF D
<1>1. CASE Answered
  <2>1. CASE pc = "login"
    BY <1>1, <2>1 DEF Answered
  <2>2. CASE pc # "login"
    BY <1>1, <2>2, ElapsesKeeps DEF Answered
  <2> QED  BY <2>1, <2>2
<1>2. CASE Retry
  <2>1. progress' = "sent" /\ UNCHANGED <<service, pc, token>> /\ attempt' = attempt + 1
        /\ progress # "answered" /\ Elapses(Timeout + Backoff)
    BY <1>2 DEF Retry, Waiting, NextAttempt
  <2>2. left' \in 0..Life /\ left' >= left - (Timeout + Backoff)
    BY <2>1, ElapsesKeeps
  <2>3. (attempt' - 1) * (Timeout + Backoff)
          = (attempt - 1) * (Timeout + Backoff) + (Timeout + Backoff)
    <3>1. \A m \in Nat, n \in Nat : (m + 1 - 1) * n = (m - 1) * n + n
      OBVIOUS
    <3> QED  BY <2>1, <3>1
  <2>4. (attempt - 1) * (Timeout + Backoff) \in Int
    <3>1. \A m \in Int, n \in Nat : m * n \in Int
      OBVIOUS
    <3>2. attempt - 1 \in Int /\ Timeout + Backoff \in Nat
      OBVIOUS
    <3> QED  BY <3>1, <3>2
  <2>5. CASE service = "frontdoor" /\ pc = "presign"
    <3>1. left + (attempt - 1) * (Timeout + Backoff) >= Buffer /\ token
          /\ left \in Int /\ left' \in Int
      BY <2>1, <2>2, <2>5
    <3>2. left' + (attempt' - 1) * (Timeout + Backoff) >= Buffer
      BY <3>1, <2>2, <2>3, <2>4
    <3> QED  BY <2>1, <2>2, <2>5, <3>1, <3>2
  <2>6. CASE ~(service = "frontdoor" /\ pc = "presign")
    BY <2>1, <2>2, <2>6
  <2> QED  BY <2>5, <2>6
<1>3. CASE Exhausted
  <2>1. pc' = "idle" /\ token' \in BOOLEAN /\ Elapses(Timeout)
    BY <1>3 DEF Exhausted, GiveUp, Return
  <2> QED  BY <2>1, ElapsesKeeps
<1>4. CASE ReadAnswer
  <2>1. UNCHANGED <<service, left>> /\ progress' = "sent" /\ token' \in BOOLEAN
    BY <1>4 DEF ReadAnswer, Send
  <2>2. CASE pc = "login"
    <3>1. left >= Buffer /\ token' /\ pc' = "presign" /\ attempt' = 1
      BY <1>4, <2>2 DEF ReadAnswer, Send
    <3> QED  BY <2>1, <3>1, <1>0 DEF D
  <2>3. CASE pc # "login"
    <3>1. pc' \in {"probe", "open"}
      BY <1>4, <2>3 DEF ReadAnswer, Send
    <3> QED  BY <2>1, <3>1
  <2> QED  BY <2>2, <2>3
<1>5. ASSUME NEW p \in Payload, Upload(p)  PROVE TokenInv'
  <2>1. UNCHANGED <<service, token, left>>
    BY <1>5 DEF Upload
  <2>2. CASE pc' = "presign" /\ service = "frontdoor"
    <3>1. TokenUsable /\ attempt' = 1
      BY <1>5, <2>2 DEF Upload, Send, FirstRequest
    <3> QED  BY <2>1, <2>2, <3>1, <1>0 DEF D, TokenUsable
  <2>3. CASE ~(pc' = "presign" /\ service = "frontdoor")
    <3>1. progress' = "sent"
      BY <1>5 DEF Upload, Send
    <3> QED  BY <2>1, <2>3, <3>1
  <2> QED  BY <2>2, <2>3
<1>6. CASE NewService
  BY <1>6 DEF NewService, Send, FirstRequest
<1>7. CASE PutActs
  BY <1>7 DEF PutActs
<1>8. CASE SecretFails
  BY <1>8 DEF SecretFails, GiveUp, Return
<1>9. CASE BadAnswer
  BY <1>9 DEF BadAnswer, GiveUp, Return
<1>10. CASE ProbeForbidden \/ ProbeUnsent
  BY <1>10 DEF ProbeForbidden, ProbeUnsent, Return
<1>11. CASE ProbeFails
  BY <1>11 DEF ProbeFails, Return
<1>12. CASE OpenTar
  BY <1>12 DEF OpenTar
<1>13. CASE OpenFails
  BY <1>13 DEF OpenFails, Return
<1>14. CASE StatTar
  BY <1>14 DEF StatTar, Send
<1>15. CASE StatFails \/ RequestFails \/ KeyFails
  BY <1>15 DEF StatFails, RequestFails, KeyFails, CloseTar, Return
<1>16. CASE PutAnswered
  BY <1>16 DEF PutAnswered, Return
<1>17. CASE LibraryReturns
  BY <1>17 DEF LibraryReturns, Return
<1>18. CASE TokenAges
  BY <1>18 DEF TokenAges
<1>19. CASE TarVanishes
  BY <1>19 DEF TarVanishes
<1>20. CASE UNCHANGED vars
  BY <1>20
<1> QED
  BY <1>1, <1>2, <1>3, <1>4, <1>5, <1>6, <1>7, <1>8, <1>9, <1>10,
     <1>11, <1>12, <1>13, <1>14, <1>15, <1>16, <1>17, <1>18, <1>19, <1>20 DEF Next, CallStep

-----------------------------------------------------------------------------
(* Theorems.                                                               *)

LEMMA UInit == Init => UInv
<1> SUFFICES ASSUME Init  PROVE UInv
  OBVIOUS
<1> USE DEF Init, HTTP, Request
<1>1. Attempts \in Nat /\ Life \in Nat
  BY UploadAssumption
<1>2. PlaceInv
  BY <1>1 DEF PlaceInv
<1>3. OpenInv
  BY DEF OpenInv
<1>4. StoreInv
  BY DEF StoreInv
<1>5. TokenInv
  <2>1. left \in 0..Life
    BY <1>1
  <2>2. token \in BOOLEAN /\ pc # "login" /\ pc # "presign"
    OBVIOUS
  <2> QED  BY <2>1, <2>2, Zenon DEF TokenInv
<1> QED
  BY <1>2, <1>3, <1>4, <1>5 DEF UInv

LEMMA UStep == UInv /\ [Next]_vars => UInv'
  BY PlaceKept, OpenKept, StoreKept, TokenKept DEF UInv

LEMMA UInvariant == Spec => []UInv
  BY UInit, UStep, PTL DEF Spec

\* The call, its attempts, the token and the descriptors stay within their types,
\* whatever is retried (clients.go:479-538).
THEOREM UploadTypeCorrect == Spec => []UTypeOK
<1>1. UInv => UTypeOK
  BY DEF UInv, PlaceInv, OpenInv, StoreInv, TokenInv, UTypeOK
<1> QED
  BY <1>1, UInvariant, PTL

\* Every returned call has closed the tar and its answers, for any number of attempts
\* and wherever it failed (metrics_collector.go:220-279, clients.go:495-520).
THEOREM CallsCloseEverything == Spec => []NothingLeftOpen
<1>1. UInv => NothingLeftOpen
  BY DEF UInv, PlaceInv, OpenInv, NothingLeftOpen
<1> QED
  BY <1>1, UInvariant, PTL

\* The ten minutes login takes off a token's validity last for all attempts of the
\* presign request (clients.go:282-345), for any times within UploadAssumption.
THEOREM TokensStayFresh == Spec => []TokenFresh
<1>1. ASSUME UInv  PROVE TokenFresh
  <2> SUFFICES ASSUME service = "frontdoor", pc = "presign", progress # "answered"
               PROVE  token /\ left > 0
    BY DEF TokenFresh
  <2>1. token /\ left + (attempt - 1) * (Timeout + Backoff) >= Buffer /\ left \in Nat
    BY <1>1 DEF UInv, TokenInv, UploadAssumption
  <2>2. attempt \in 1..Attempts
    BY <1>1, UploadAssumption DEF UInv, PlaceInv, Request
  <2>3. (attempt - 1) * (Timeout + Backoff) < Buffer
    BY <2>2, BufferLasts
  <2>4. \A m \in Int, n \in Nat : m * n \in Int
    OBVIOUS
  <2>5. (attempt - 1) * (Timeout + Backoff) \in Int
    BY <2>2, <2>4, UploadAssumption
  <2> QED  BY <2>1, <2>3, <2>5, UploadAssumption
<1> QED
  BY <1>1, UInvariant, PTL

\* Every step of a storage service is a step of UploadCall or none: an answered PUT
\* has stored this call's object whole, an error may have (clients.go:385-480).
LEMMA CallStepRefines ==
  ASSUME UInv, [Next]_vars
  PROVE  [Call!Next]_<<IF mode = "ready" THEN payload ELSE None, landed, object, result>>
<1> DEFINE current == IF mode = "ready" THEN payload ELSE None
           Stutter == UNCHANGED <<current, landed, object, result>>
<1> USE UploadAssumption DEF UInv, PlaceInv, StoreInv, Request,
        vars, tokenVars, openVars, storeVars
<1>1. ASSUME Return("error"), UNCHANGED object, pc # "idle"
      PROVE  Call!Fail \/ Stutter
  BY <1>1 DEF Return, Call!Fail
<1>2. ASSUME Return("ok"), UNCHANGED object, landed, pc # "idle"
      PROVE  Call!Succeed \/ Stutter
  BY <1>2 DEF Return, Call!Succeed
<1>3. ASSUME NEW p \in Payload, Upload(p)  PROVE Call!Call(p)
  BY <1>3 DEF Upload, Call!Call
<1>4. CASE PutActs
  BY <1>4 DEF PutActs, Call!Next, Call!Store
<1>5. CASE \/ Exhausted \/ SecretFails \/ BadAnswer
          \/ OpenFails \/ StatFails \/ RequestFails \/ KeyFails
  <2>1. Return("error") /\ UNCHANGED object /\ pc # "idle"
    BY <1>5 DEF Exhausted, SecretFails, BadAnswer, OpenFails, StatFails, RequestFails,
              KeyFails, GiveUp, Waiting
  <2> QED  BY <1>1, <2>1 DEF Call!Next
<1>6. CASE PutAnswered
  BY <1>2, <1>6 DEF PutAnswered, Call!Next
<1>7. CASE LibraryReturns
  BY <1>1, <1>2, <1>7 DEF LibraryReturns, Call!Next
<1>8. CASE ProbeForbidden \/ ProbeUnsent \/ ProbeFails
  BY <1>8 DEF ProbeForbidden, ProbeUnsent, ProbeFails, Return
<1>9. CASE NewService
  BY <1>9 DEF NewService
<1>10. CASE Answered \/ Retry \/ ReadAnswer \/ OpenTar \/ StatTar \/ TokenAges \/ TarVanishes
  <2>1. UNCHANGED <<mode, payload, storeVars, result>>
    BY <1>10 DEF Answered, Retry, ReadAnswer, OpenTar, StatTar, TokenAges, TarVanishes
  <2> QED  BY <2>1
<1>11. CASE UNCHANGED vars
  BY <1>11
<1> QED
  BY <1>3, <1>4, <1>5, <1>6, <1>7, <1>8, <1>9, <1>10, <1>11 DEF Next, CallStep, Call!Next

\* A storage service, whatever is lost, late, retried or vanished, is a service that
\* stores whole objects only and succeeds only if it has (clients.go:485-494).
THEOREM UploadImplementsCall == Spec => ImplementsUploadCall
<1>1. Init => Call!Init
  BY DEF Init, Call!Init
<1> QED
  BY <1>1, UInvariant, CallStepRefines, PTL DEF Spec, ImplementsUploadCall, Call!Spec
=============================================================================

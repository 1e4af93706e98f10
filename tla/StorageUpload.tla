---------------------------- MODULE StorageUpload ----------------------------
(***************************************************************************)
(* The storage services (src/cldy/clients.go, metrics_collector.go): their *)
(* construction with a test upload, and Upload. Front Door issues a token, *)
(* the token or an API key buys a presigned URL, and the tar is put there; *)
(* every request is retried by doWithRetry. The custom S3 and Azure        *)
(* services open the tar and leave the rest to their libraries.            *)
(*                                                                         *)
(* One goroutine makes the calls. The tar may vanish while it is uploaded, *)
(* and an answer may be lost after the service has acted on the request.   *)
(* Times are those of the token: it has `left` to live.                    *)
(***************************************************************************)
EXTENDS Naturals

CONSTANTS
  Payload,
  None,      \* no payload
  Attempts,  \* ApptioClient.maxRetries and testUploadAttempts
  Timeout,   \* of the HTTP client, the bound of an attempt
  Backoff,   \* the longest retryBackoff
  Buffer,    \* what login takes off a token's validity, 10 minutes
  Life       \* how long Front Door's tokens are valid

\* The two bounds are the deployment's: 3 * (60 s + 4 s) against 10 minutes with the
\* default timeout, and tokens that outlive the buffer.
ASSUME UploadAssumption ==
  /\ None \notin Payload
  /\ Attempts \in Nat \ {0} /\ Timeout \in Nat /\ Backoff \in Nat
  /\ Buffer \in Nat /\ Attempts * (Timeout + Backoff) < Buffer
  /\ Life \in Nat /\ Buffer + Timeout <= Life

VARIABLES
  service,   \* which implementation of StorageService this is
  mode,      \* is it constructed?
  pc,        \* the call in progress, or its request
  attempt,   \* doWithRetry's attempt
  progress,  \* of the request: sent, acted on by the destination, or answered
  token,     \* is ApptioServiceImpl.OpenToken set?
  left,      \* how long the token is valid; validTil is `Buffer` earlier
  payload,
  body,      \* the body of the PUT request
  tar,       \* payloads whose file exists
  files,     \* open descriptors of the tar
  bodies,    \* response bodies that are not closed
  object,    \* what the destination holds of each payload
  landed,    \* observation: has this call stored it?
  result     \* of the last call

tokenVars == <<token, left>>
openVars == <<files, bodies>>
storeVars == <<object, landed>>
vars == <<service, mode, pc, attempt, progress, tokenVars, payload, body, tar,
          openVars, storeVars, result>>

HTTP == {"frontdoor", "collector"}
Request == {"login", "presign", "put", "probe"}

UTypeOK ==
  /\ service \in HTTP \cup {"custom"}
  /\ mode \in {"new", "test", "ready", "failed"}
  /\ pc \in {"idle", "open", "stat"} \cup Request
  /\ attempt \in 0..Attempts
  /\ progress \in {"sent", "acted", "answered"}
  /\ token \in BOOLEAN /\ left \in 0..Life
  /\ payload \in Payload \cup {None} /\ tar \subseteq Payload
  /\ body \in {"whole", "used"}
  /\ files \in 0..1 /\ bodies \in 0..1
  /\ object \in [Payload -> {"none", "cut", "whole"}]
  /\ landed \in BOOLEAN /\ result \in {"none", "ok", "error"}

Init ==
  /\ service \in HTTP \cup {"custom"}
  /\ mode = "new" /\ pc = "idle" /\ attempt = 0 /\ progress = "sent"
  /\ token = FALSE /\ left = 0
  /\ payload = None /\ body = "used" /\ tar = Payload
  /\ files = 0 /\ bodies = 0
  /\ object = [p \in Payload |-> "none"]
  /\ landed = FALSE /\ result = "none"

-----------------------------------------------------------------------------
(* Calls.                                                                  *)

Send(r) == pc' = r /\ attempt' = 1 /\ progress' = "sent"

\* Upload, or the constructor with its test, returns.
Return(res) ==
  /\ pc' = "idle" /\ attempt' = 0 /\ progress' = "sent"
  /\ payload' = None /\ body' = "used" /\ landed' = FALSE
  /\ IF mode = "test" THEN mode' = (IF res = "ok" THEN "ready" ELSE "failed")
                           /\ UNCHANGED result
                      ELSE result' = res /\ UNCHANGED mode
  /\ UNCHANGED <<service, tar>>

\* login forgets the token it could not replace.
GiveUp ==
  /\ Return("error")
  /\ token' = (token /\ pc # "login")

\* Mutant of TokenUsable: the token is used until it expires.
TokenUnexpired == token /\ left > 0

\* The token is set and not After(validTil).
TokenUsable == token /\ left >= Buffer

FirstRequest(usable) == IF service = "frontdoor" /\ ~usable THEN "login" ELSE "presign"

\* NewApptioService and NewMetricsCollectorService begin testUpload; the custom
\* services are not tested.
NewService ==
  /\ mode = "new"
  /\ IF service = "custom" THEN mode' = "ready" /\ UNCHANGED <<pc, attempt, progress>>
                           ELSE mode' = "test" /\ Send(FirstRequest(FALSE))
  /\ UNCHANGED <<service, tokenVars, payload, body, tar, openVars, storeVars, result>>

Upload(p) ==
  /\ mode = "ready" /\ pc = "idle"
  /\ payload' = p /\ result' = "none"
  /\ IF service = "custom" THEN pc' = "open" /\ UNCHANGED <<attempt, progress>>
                           ELSE Send(FirstRequest(TokenUsable))
  /\ UNCHANGED <<service, mode, tokenVars, body, tar, openVars, storeVars>>

-----------------------------------------------------------------------------
(* doWithRetry.                                                            *)

Waiting == pc \in Request \ {"probe"} /\ service \in HTTP /\ progress # "answered"

Elapses(most) ==
  \E age \in {0, most} : left' = IF left > age THEN left - age ELSE 0

\* The destination stores the body it is sent, once per attempt: a consumed one
\* "means storing a truncated object".
PutActs ==
  /\ pc = "put" /\ progress = "sent"
  /\ progress' = "acted"
  /\ object' = [object EXCEPT ![payload] = IF body = "whole" THEN "whole" ELSE "cut"]
  /\ landed' = TRUE
  /\ UNCHANGED <<service, mode, pc, attempt, tokenVars, payload, body, tar, openVars, result>>

\* The transport has closed the body it was given.
ClosedByTransport == IF pc = "put" THEN files - 1 ELSE files

\* A 200; Front Door has issued the token at some time during the attempt.
Answered ==
  /\ Waiting
  /\ pc = "put" => progress = "acted"
  /\ progress' = "answered" /\ bodies' = bodies + 1
  /\ files' = ClosedByTransport
  /\ IF pc = "login" THEN left' \in {Life - Timeout, Life} ELSE Elapses(Timeout)
  /\ UNCHANGED <<service, mode, pc, attempt, token, payload, body, tar, storeVars, result>>

\* Mutant of Rewind: the body is sent as it is, consumed.
RewindSkipped == body' = "used" /\ files' = ClosedByTransport

\* GetBody: the PUT's reopens the tar.
Rewind ==
  IF pc = "put" THEN payload \in tar /\ body' = "whole" /\ files' = ClosedByTransport + 1
                ELSE UNCHANGED <<body, files>>

\* Mutant of LastAttempt: one attempt too many.
AttemptAfterLast == attempt = Attempts + 1

LastAttempt == attempt = Attempts

\* Mutant of NextAttempt: the count stands still.
SameAttempt == attempt

NextAttempt == attempt + 1

\* Any other answer, whose body is drained and closed, or none at all, although the
\* request may have been acted on.
Retry ==
  /\ Waiting /\ ~LastAttempt
  /\ attempt' = NextAttempt /\ progress' = "sent"
  /\ Rewind
  /\ Elapses(Timeout + Backoff)
  /\ UNCHANGED <<service, mode, pc, token, payload, tar, bodies, storeVars, result>>

\* The attempts are used up, or GetBody fails.
Exhausted ==
  /\ Waiting
  /\ LastAttempt \/ (pc = "put" /\ payload \notin tar)
  /\ files' = ClosedByTransport
  /\ Elapses(Timeout)
  /\ GiveUp
  /\ UNCHANGED <<bodies, object>>

-----------------------------------------------------------------------------
(* The requests.                                                           *)

\* The secret cannot be read, before any attempt.
SecretFails ==
  /\ pc = "login" /\ attempt = 1 /\ progress = "sent"
  /\ GiveUp
  /\ UNCHANGED <<left, openVars, object>>

\* Mutant of CloseAnswer: an answer that is no good is not closed.
CloseAnswerIfGood(good) == bodies' = IF good THEN bodies - 1 ELSE bodies

\* The deferred Close.
CloseAnswer(good) == bodies' = bodies - 1

\* The answer has what it should: a token and its validity, a URL.
ReadAnswer ==
  /\ progress = "answered" /\ pc \in {"login", "presign"}
  /\ CloseAnswer(TRUE)
  /\ token' = (token \/ pc = "login")
  /\ IF pc = "login" THEN Send("presign")
     ELSE IF mode = "test" THEN Send("probe")
     ELSE pc' = "open" /\ attempt' = 0 /\ progress' = "sent"
  /\ UNCHANGED <<service, mode, left, payload, body, tar, files, storeVars, result>>

BadAnswer ==
  /\ progress = "answered" /\ pc \in {"login", "presign"}
  /\ CloseAnswer(FALSE)
  /\ GiveUp
  /\ UNCHANGED <<left, files, object>>

\* uploadProbe: a broken URL, so 403 is what it should be answered.
ProbeForbidden ==
  /\ pc = "probe"
  /\ Return("ok")
  /\ UNCHANGED <<tokenVars, openVars, object>>

\* What the presigned URL was broken into is no URL: http.NewRequest fails.
ProbeUnsent ==
  /\ pc = "probe" /\ attempt = 1
  /\ Return("error")
  /\ UNCHANGED <<tokenVars, openVars, object>>

ProbeFails ==
  /\ pc = "probe"
  /\ IF LastAttempt THEN Return("error")
     ELSE /\ attempt' = NextAttempt
          /\ UNCHANGED <<service, mode, pc, progress, payload, body, tar, landed, result>>
  /\ UNCHANGED <<tokenVars, openVars, object>>

\* Close of the tar's descriptor; a second one only returns an error.
CloseTar(n) == IF n > 0 THEN n - 1 ELSE 0

\* uploadPayloadToPresignedURL and the custom services open the tar,
OpenTar ==
  /\ pc = "open" /\ payload \in tar
  /\ files' = files + 1 /\ pc' = "stat"
  /\ UNCHANGED <<service, mode, attempt, progress, tokenVars, payload, body, tar,
                 bodies, storeVars, result>>

OpenFails ==
  /\ pc = "open"
  /\ Return("error")
  /\ UNCHANGED <<tokenVars, openVars, object>>

\* look at its size, or make the object's key of its name,
StatTar ==
  /\ pc = "stat"
  /\ Send("put") /\ body' = "whole"
  /\ UNCHANGED <<service, mode, tokenVars, payload, tar, openVars, storeVars, result>>

\* and close it in the deferred function if Stat fails,
StatFails ==
  /\ pc = "stat" /\ service \in HTTP
  /\ files' = CloseTar(files)
  /\ Return("error")
  /\ UNCHANGED <<tokenVars, bodies, object>>

\* twice if the presigned URL, which nobody looked at, makes no request: at once,
\* and in the deferred function, which has not been told.
RequestFails ==
  /\ pc = "stat" /\ service \in HTTP
  /\ files' = CloseTar(CloseTar(files))
  /\ Return("error")
  /\ UNCHANGED <<tokenVars, bodies, object>>

\* once if the tar's name does not make a key (custom services),
KeyFails ==
  /\ pc = "stat" /\ service = "custom"
  /\ files' = CloseTar(files)
  /\ Return("error")
  /\ UNCHANGED <<tokenVars, bodies, object>>

\* and put it.
PutAnswered ==
  /\ pc = "put" /\ progress = "answered"
  /\ CloseAnswer(TRUE)
  /\ Return("ok")
  /\ UNCHANGED <<tokenVars, files, object>>

\* The library of a custom service returns; an error of the deferred Close is
\* Upload's, too.
LibraryReturns ==
  /\ pc = "put" /\ service = "custom"
  /\ files' = files - 1
  /\ (progress = "acted" /\ Return("ok")) \/ Return("error")
  /\ UNCHANGED <<tokenVars, bodies, object>>

-----------------------------------------------------------------------------
\* The token ages between calls, too, and a tar may vanish at any time.
TokenAges ==
  /\ pc = "idle" /\ left > 0
  /\ left' = left - 1
  /\ UNCHANGED <<service, mode, pc, attempt, progress, token, payload, body, tar,
                 openVars, storeVars, result>>

TarVanishes ==
  /\ \E p \in tar : tar' = tar \ {p}
  /\ UNCHANGED <<service, mode, pc, attempt, progress, tokenVars, payload, body,
                 openVars, storeVars, result>>

CallStep ==
  \/ NewService
  \/ PutActs \/ Answered \/ Retry \/ Exhausted
  \/ SecretFails \/ ReadAnswer \/ BadAnswer
  \/ ProbeForbidden \/ ProbeUnsent \/ ProbeFails
  \/ OpenTar \/ OpenFails \/ StatTar \/ StatFails \/ RequestFails \/ KeyFails
  \/ PutAnswered \/ LibraryReturns

Next == CallStep \/ TokenAges \/ TarVanishes \/ \E p \in Payload : Upload(p)

Spec == Init /\ [][Next]_vars

\* Requests end with their timeout.
FairSpec == Spec /\ WF_vars(CallStep)

-----------------------------------------------------------------------------
\* When a call has returned, however it ended, every descriptor of the tar and every
\* response body has been closed, and during the call at most one of the two is open:
\* the descriptor is the uploader's to close until the request owns it
\* (metrics_collector.go:226), the transport's from there, attempt by attempt. (It may
\* be closed twice: RequestFails.)
NothingLeftOpen == (pc = "idle" => files = 0 /\ bodies = 0) /\ files + bodies <= 1

\* Every presign request carries a token that is valid while the request is answered,
\* retries and back-offs included: "some buffer to prevent a failure during upload
\* window" (clients.go:333), although validity is checked once, before the first.
TokenFresh ==
  service = "frontdoor" /\ pc = "presign" /\ progress # "answered" => token /\ left > 0

\* Upload keeps UploadCall: only whole objects are stored, retries, lost answers and
\* vanishing tars notwithstanding, and success means this call has stored one
\* (clients.go:485).
Call == INSTANCE UploadCall WITH
  current <- IF mode = "ready" THEN payload ELSE None

ImplementsUploadCall == Call!Spec

\* Every call returns: the uploader's only goroutine waits for it (a custom service
\* as far as its library does).
CallsReturn == pc # "idle" ~> pc = "idle"
=============================================================================

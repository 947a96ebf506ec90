---------------------------- MODULE ModelRequest ----------------------------
(***************************************************************************)
(* One request of OpenAICompatibleClient to a model endpoint, against a    *)
(* clock: every wait for the network has the timeout its socket was last   *)
(* given, a call of http.client may wait several times, and the deadline   *)
(* is looked at between the calls.  The endpoint sends its headers, its    *)
(* body and the framing of the body in as many pieces as it likes, as late *)
(* as it likes, or not at all.                                             *)
(***************************************************************************)
EXTENDS Integers, FiniteSetsExt

CONSTANTS
  TIMEOUT,      \* timeout_seconds
  MAX_BYTES,    \* MAX_MODEL_RESPONSE_BYTES
  MaxPieces,    \* bound: how often one call waits again; http.client has none
  MaxBody       \* bound: the length of a body

RequestAssumption ==
  TIMEOUT \in Nat \ {0} /\ MAX_BYTES \in Nat /\ MaxPieces \in Nat /\ MaxBody \in Nat

VARIABLES
  now,        \* since the deadline was set
  pc,
  limit,      \* the timeout of the socket
  waited,     \* in the call that blocks
  pieces,     \* how often the call has waited before
  closing,    \* "Connection: close": http.client lets go of the socket
  body,       \* the length of what the endpoint has to send
  declared,   \* Content-Length is there, and says so
  chunked,    \* Transfer-Encoding: chunked
  size,       \* of the body, received
  outcome     \* "none", "transport", "protocol", "answer"
vars == <<now, pc, limit, waited, pieces, closing, body, declared, chunked, size, outcome>>
response == <<closing, body, declared, chunked>>

Blocking == {"connect", "send", "headers", "body"}
Remaining == TIMEOUT - now

Init ==
  /\ now = 0 /\ pc = "connect" /\ limit = TIMEOUT /\ waited = 0 /\ pieces = 0
  /\ closing = FALSE /\ body = 0 /\ declared = FALSE /\ chunked = FALSE
  /\ size = 0 /\ outcome = "none"

Tick ==
  /\ pc \in Blocking /\ waited < limit
  /\ now' = now + 1 /\ waited' = waited + 1
  /\ UNCHANGED <<pc, limit, pieces, response, size, outcome>>

End(kind) ==
  /\ outcome' = kind /\ pc' = "done"
  /\ UNCHANGED <<now, limit, waited, pieces, response>>

TimesOut == pc \in Blocking /\ waited = limit /\ End("transport") /\ UNCHANGED size

\* No connection, a reset, or what is no HTTP.
Fails == pc \in Blocking /\ End("transport") /\ UNCHANGED size

Block(next) == pc' = next /\ waited' = 0 /\ pieces' = 0

\* The wait begins again, with the same timeout: the next address is tried, the
\* request has more to send, or a part has come of the headers, of an answer 100
\* before them, or of what frames a chunk: its size, its end and the trailer.
Piece ==
  /\ pc \in {"connect", "send", "headers"} \/ (pc = "body" /\ chunked)
  /\ pieces < MaxPieces
  /\ pieces' = pieces + 1
  /\ waited' = 0
  /\ UNCHANGED <<now, pc, limit, response, size, outcome>>

Connected ==
  /\ pc = "connect"
  /\ Block("send")
  /\ UNCHANGED <<now, limit, response, size, outcome>>

Sent ==
  /\ pc = "send"
  /\ pc' = "apply"
  /\ UNCHANGED <<now, limit, waited, pieces, response, size, outcome>>

\* _apply_deadline before getresponse.
ApplyToHeaders ==
  /\ pc = "apply" /\ Remaining > 0
  /\ limit' = Remaining
  /\ Block("headers")
  /\ UNCHANGED <<now, response, size, outcome>>

\* Fault: without a socket to set, the deadline is not looked at.
TooLate_SocketOnly == pc \in {"apply", "loop"} /\ Remaining <= 0 /\ ~closing

TooLate == pc \in {"apply", "loop"} /\ Remaining <= 0

DeadlinePassed == TooLate /\ End("transport") /\ UNCHANGED size

\* getresponse returns.
Headers ==
  /\ pc = "headers"
  /\ closing' \in BOOLEAN /\ body' \in 0 .. MaxBody /\ declared' \in BOOLEAN
  /\ chunked' \in BOOLEAN
  /\ pc' = "response"
  /\ UNCHANGED <<now, limit, waited, pieces, size, outcome>>

\* A status that is not 2xx.
BadStatus == pc = "response" /\ End("transport") /\ UNCHANGED size

\* A length that is no number or below zero, or beyond the limit.
BadLength == pc = "response" /\ End("protocol") /\ UNCHANGED size

GoodResponse ==
  /\ pc = "response" /\ ~(declared /\ body > MAX_BYTES)
  /\ pc' = "loop"
  /\ UNCHANGED <<now, limit, waited, pieces, response, size, outcome>>

\* _apply_deadline finds no socket to set when the connection is closing.
Reapplied == IF closing THEN limit ELSE Remaining

ApplyToBody ==
  /\ pc = "loop" /\ (Remaining > 0 \/ ~TooLate)
  /\ limit' = Reapplied
  /\ Block("body")
  /\ UNCHANGED <<now, response, size, outcome>>

TooLong(n) == n > MAX_BYTES

\* read1 returns some of what there is, never more than one byte too many.
Chunk(n) ==
  /\ pc = "body"
  /\ size + n <= Min({body, MAX_BYTES + 1})
  /\ size' = size + n
  /\ IF TooLong(size + n) THEN End("protocol")
     ELSE /\ pc' = "loop"
          /\ UNCHANGED <<now, limit, waited, pieces, response, outcome>>

\* The body is over, or the connection is, where no chunk is missing then.
NoMore ==
  /\ pc = "body" /\ (chunked => size = body)
  /\ pc' = "parse"
  /\ UNCHANGED <<now, limit, waited, pieces, response, size, outcome>>

\* Part of a JSON object is none; all of it may be the answer.
Parse ==
  /\ pc = "parse"
  /\ \/ End("protocol")
     \/ size = Min({body, MAX_BYTES + 1}) /\ End("answer")
  /\ UNCHANGED size

Client ==
  \/ Piece \/ Connected \/ Sent \/ ApplyToHeaders \/ DeadlinePassed \/ Headers
  \/ BadStatus \/ BadLength \/ GoodResponse \/ ApplyToBody \/ (\E n \in 1 .. MaxBody : Chunk(n))
  \/ NoMore \/ Parse
Next == Tick \/ TimesOut \/ Fails \/ Client

Spec == Init /\ [][Next]_vars

-----------------------------------------------------------------------------
(* Properties *)

\* An answer is no longer than the limit, and one byte more is the most that
\* is ever held, also when no length was declared.
WithinSize == size <= MAX_BYTES + 1 /\ (outcome = "answer" => size <= MAX_BYTES)

Reading == pc \in {"headers", "body"}

\* A wait for the headers or the body that is the first of its call ends with the
\* deadline, while the socket is the connection's; each further wait of the same
\* call adds no more than one timeout.
WaitByDeadline == Reading /\ ~closing => now <= (1 + pieces) * TIMEOUT

\* Nor does more than one further timeout go by when the connection has let go of
\* its socket, however the endpoint deals out its headers and its body.
OvershootIsBounded == Reading => now < (2 + pieces) * TIMEOUT

\* An answer keeps to its length, and each wait for a part of it to its time.  How
\* often one call waits nothing bounds, so no bound on the request follows.
RequestKeepsLimits == WithinSize /\ WaitByDeadline /\ OvershootIsBounded

\* docs/safety.md:42: the transport "reapplies a shrinking monotonic deadline
\* before response headers and every body chunk."
DeadlineIsReapplied == pc = "body" /\ waited = 0 => limit <= Remaining
=============================================================================

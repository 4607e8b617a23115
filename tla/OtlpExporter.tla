----------------------------- MODULE OtlpExporter -----------------------------
(***************************************************************************)
(* The OTLP exporter of radiochron-agent (src/export/otlp.rs) with the     *)
(* HTTP exchange it is built on (src/http.rs): a connection per event, the *)
(* whole request written, then everything read until the server closes.    *)
(* The server (not in src/) answers in time or late, with any status, and  *)
(* closes the connection at once, later or never.                          *)
(*                                                                         *)
(* Abstractions.                                                           *)
(*  - An answer is what request() and export() can tell apart: complete    *)
(*    with status 200 or 202 ("taken": partialSuccess is not read),        *)
(*    complete with another status ("other"), or useless ("cut": no end of *)
(*    the head, no number for a status, longer than 4 MiB).  A body cut    *)
(*    short is not noticed: Content-Length is not read.                    *)
(*  - Resolving, connecting, the TLS handshake and the writes are one      *)
(*    step, which works or fails, with the request arrived or not.         *)
(***************************************************************************)
EXTENDS Naturals

CONSTANT Posted   \* events the exporter may be called with

ASSUME PostedAssumption == Posted \subseteq Nat \ {0}

VARIABLES
  hpc,       \* where export() is; "idle" between calls, "ok" and "err" at its end
  posting,   \* the event of the call (0: no call)
  request,   \* the request is under way to the server
  reply,     \* what has arrived of the answer
  eof,       \* the server has closed the connection
  late,      \* events under way on connections given up
  server     \* events the server has taken

otlpVars == <<hpc, posting, request, reply, eof, late, server>>

OtlpInit ==
  /\ hpc = "idle" /\ posting = 0
  /\ request = FALSE /\ reply = "none" /\ eof = FALSE
  /\ late = {} /\ server = {}

\* The stream goes out of scope; a request under way may still arrive.
Disconnect ==
  /\ request' = FALSE /\ reply' = "none" /\ eof' = FALSE
  /\ late' = IF request THEN late \cup {posting} ELSE late

OtlpCall(e) ==
  /\ hpc = "idle"
  /\ posting' = e
  /\ hpc' = "connect"
  /\ UNCHANGED <<request, reply, eof, late, server>>

\* An error before the request is flushed; it may have left all the same.
RequestFails(whole) ==
  /\ hpc = "connect"
  /\ late' = IF whole THEN late \cup {posting} ELSE late
  /\ hpc' = "err"
  /\ UNCHANGED <<posting, request, reply, eof, server>>

RequestSent ==
  /\ hpc = "connect"
  /\ request' = TRUE
  /\ hpc' = "response"
  /\ UNCHANGED <<posting, reply, eof, late, server>>

\* Mutant: the status is not looked at.
Accepted_AnyStatus == reply # "none"

Accepted == reply = "taken"

ResponseRead ==
  /\ hpc = "response" /\ eof
  /\ hpc' = IF Accepted THEN "ok" ELSE "err"
  /\ Disconnect
  /\ UNCHANGED <<posting, server>>

\* Mutant: no read timeout is set on the socket.
ResponseTimeout_Never ==
  /\ hpc = "response" /\ ~ eof /\ reply # "none"
  /\ hpc' = "err"
  /\ Disconnect
  /\ UNCHANGED <<posting, server>>

\* read_to_end needs the end of the stream: a server that answers and keeps
\* the connection open makes it fail too.
ResponseTimeout ==
  /\ hpc = "response" /\ ~ eof
  /\ hpc' = "err"
  /\ Disconnect
  /\ UNCHANGED <<posting, server>>

OtlpReturn ==
  /\ hpc \in {"ok", "err"}
  /\ hpc' = "idle" /\ posting' = 0
  /\ UNCHANGED <<request, reply, eof, late, server>>

OtlpAbandon ==
  /\ hpc' = "idle" /\ posting' = 0
  /\ Disconnect
  /\ UNCHANGED server

----------------------------------------------------------------------------
\* The server and the network

\* Stored or not, an answer other than 200 and 202 reports no success.
ServerAnswers(answer, stored) ==
  /\ request
  /\ answer = "taken" => stored
  /\ request' = FALSE
  /\ reply' = answer
  /\ server' = IF stored THEN server \cup {posting} ELSE server
  /\ UNCHANGED <<hpc, posting, eof, late>>

\* The end of the stream, with what was sent before it or without.
ServerCloses(lost) ==
  /\ hpc = "response" /\ ~ eof
  /\ eof' = TRUE
  /\ request' = FALSE
  /\ reply' = IF lost /\ reply # "none" THEN "cut" ELSE reply
  /\ UNCHANGED <<hpc, posting, late, server>>

LateArrives(e) ==
  /\ e \in late
  /\ late' = late \ {e}
  /\ server' = server \cup {e}
  /\ UNCHANGED <<hpc, posting, request, reply, eof>>

----------------------------------------------------------------------------
OtlpStep ==
  \/ \E whole \in BOOLEAN : RequestFails(whole)
  \/ RequestSent \/ ResponseRead \/ ResponseTimeout

ServerStep ==
  \/ \E a \in {"taken", "other", "cut"}, stored \in BOOLEAN : ServerAnswers(a, stored)
  \/ \E lost \in BOOLEAN : ServerCloses(lost)
  \/ \E e \in Posted : LateArrives(e)

OtlpNext ==
  \/ \E e \in Posted : OtlpCall(e)
  \/ OtlpStep \/ ServerStep \/ OtlpReturn \/ OtlpAbandon

OtlpSpec == OtlpInit /\ [][OtlpNext]_otlpVars

\* What the network or the server does to an exporter that is not at fault.
OtlpFault ==
  \/ \E whole \in BOOLEAN : RequestFails(whole)
  \/ ResponseTimeout
  \/ \E a \in {"other", "cut"}, stored \in BOOLEAN : ServerAnswers(a, stored)
  \/ ServerCloses(TRUE)
  \/ reply = "none" /\ ServerCloses(FALSE)

----------------------------------------------------------------------------
(* Properties *)

\* Types, and what belongs to which step of a call: the answer stays with the
\* connection of the event that was posted on it.
OtlpTypeOK ==
  /\ hpc \in {"idle", "connect", "response", "ok", "err"}
  /\ posting \in Posted \cup {0}
  /\ hpc # "idle" => posting \in Posted
  /\ request \in BOOLEAN /\ eof \in BOOLEAN
  /\ reply \in {"none", "taken", "other", "cut"}
  /\ late \subseteq Posted /\ server \subseteq Posted

\* An answer is to the event in hand, and only one that took it can be Ok.
ReplyIsOurs ==
  /\ hpc # "response" => ~ request /\ reply = "none" /\ ~ eof
  /\ reply = "taken" => posting \in server
  /\ hpc = "ok" => posting \in server

OtlpInv == OtlpTypeOK /\ ReplyIsOurs

\* The exporter implements the contract of trait Exporter.
OtlpContract == INSTANCE ExporterContract WITH
  Events <- Posted,
  None <- 0,
  phase <- IF hpc \in {"idle", "ok", "err"} THEN hpc ELSE "busy",
  event <- posting,
  taken <- server

OtlpImplementsContract == OtlpContract!CSpec
==============================================================================

---------------------------- MODULE MeshSettings ----------------------------
(***************************************************************************)
(* internal/infrastructure/meshserver/funcs.go: Client.Settings, with the  *)
(* HTTP exchange it shares with Download (get, send, readBody,             *)
(* checkStatus, drainClose) and the parser behind artifact.ParseSettings.  *)
(* A call keeps nothing for the next one, so one at a time is enough.      *)
(***************************************************************************)
EXTENDS MshParse

CONSTANTS
  Texts,          \* the answers a server may give
  Limit           \* settingsLimit: how much of an answer is read

ASSUME SettingsAssumption ==
  /\ Texts \subseteq Seq(STRING)
  /\ Limit \in Nat

VARIABLES
  pc,         \* the next step of the call
  ctx,        \* its context: "live" or "ended"
  reply,      \* the kind of the server's answer
  text,       \* the answer itself, sent or not
  arrived,    \* how much of it has arrived
  stream,     \* whether more will; "broken": the connection
  body,       \* whether resp.Body is "none", "open" or "closed"
  settings,   \* the variable that Settings shares with its closure
  errs        \* the errors joined into the result

net == <<ctx, reply, text, arrived, stream, body>>
vars == <<pc, net, settings, errs>>

Kinds == {"unauthorized", "other status", "ok"}

Errors ==
  {"request", "ErrDownloadUnauthorized", "HTTPError", "read", "drain",
   "close body"}

TypeOK ==
  /\ pc \in {"idle", "send", "status", "read", "drain", "done"}
  /\ ctx \in {"live", "ended"}
  /\ reply \in Kinds \cup {"none"}
  /\ text \in Texts \cup {<<>>}
  /\ arrived \in 0 .. Len(text)
  /\ stream \in {"none", "flowing", "ended", "broken"}
  /\ body \in {"none", "open", "closed"}
  /\ errs \subseteq Errors

Init ==
  /\ pc = "idle"
  /\ ctx = "live"
  /\ reply = "none"
  /\ text = <<>>
  /\ arrived = 0
  /\ stream = "none"
  /\ body = "none"
  /\ settings = NoPairs
  /\ errs = {}

-----------------------------------------------------------------------------
Fail(err, step) == errs' = errs \cup {err} /\ pc' = step

Settings ==
  /\ pc = "idle"
  /\ pc' = "send"
  /\ ctx' \in {"live", "ended"}
  /\ UNCHANGED <<reply, text, arrived, stream, body, settings, errs>>

\* send: a response, if the server gives one ...
Responds ==
  /\ pc = "send"
  /\ ctx = "live"
  /\ reply' \in Kinds
  /\ text' \in IF reply' = "ok" THEN Texts ELSE {<<>>}
  /\ stream' = "flowing"
  /\ body' = "open"
  /\ pc' = "status"
  /\ UNCHANGED <<ctx, arrived, settings, errs>>

\* ... or no connection, or no answer before the context ends.
SendFails ==
  /\ pc = "send"
  /\ Fail("request", "done")
  /\ UNCHANGED <<net, settings>>

\* Mutant: the server's status is returned where a typed error belongs.
refused_Raw(err) == Fail(reply, "drain")

refused(err) == Fail(err, "drain")

checkStatus ==
  /\ pc = "status"
  /\ \/ reply = "unauthorized" /\ refused("ErrDownloadUnauthorized")
     \/ reply = "other status" /\ refused("HTTPError")
     \/ reply = "ok" /\ pc' = "read" /\ UNCHANGED errs
  /\ UNCHANGED <<net, settings>>

\* Mutant: the limit is one less.
limited_Short(n) == IF n < Limit - 1 THEN n ELSE Limit - 1

\* io.LimitReader ends after Limit bytes, whatever follows.
limited(n) == IF n < Limit THEN n ELSE Limit

\* io.ReadAll is satisfied by the limit or by the end of the body ...
atEnd == arrived >= Limit \/ stream = "ended"

\* ... and fails when the connection broke or the context ended.
ReadFails == stream = "broken" \/ ctx = "ended"

\* Mutant: the error of a read is lost, as if the body ended there.
afterRead_Loses(failed) == pc' = "drain" /\ UNCHANGED errs

afterRead(failed) ==
  IF failed THEN Fail("read", "drain") ELSE pc' = "drain" /\ UNCHANGED errs

\* Settings' closure parses what it has before it looks at the error.
readSettings ==
  /\ pc = "read"
  /\ settings' = Pairs(SubSeq(text, 1, limited(arrived)))
  /\ \/ atEnd /\ afterRead(FALSE)
     \/ ReadFails /\ afterRead(TRUE)
  /\ UNCHANGED net

\* Mutant: the error of the deferred call is not joined into the result.
joined_Ignores(new) == errs

joined(new) == errs \cup new

\* The deferred drainClose reads what the limit left, and closes the body.
drainClose ==
  /\ pc = "drain"
  /\ \E new \in {{}, {"drain"}, {"close body"}} :
       /\ IF new = {"drain"} THEN ReadFails ELSE stream = "ended"
       /\ errs' = joined(new)
  /\ body' = "closed"
  /\ pc' = "done"
  /\ UNCHANGED <<ctx, reply, text, arrived, stream, settings>>

Return ==
  /\ pc = "done"
  /\ pc' = "idle"
  /\ ctx' = "live"
  /\ reply' = "none"
  /\ text' = <<>>
  /\ arrived' = 0
  /\ stream' = "none"
  /\ body' = "none"
  /\ settings' = NoPairs
  /\ errs' = {}

-----------------------------------------------------------------------------
ServerSends ==
  /\ stream = "flowing"
  /\ body = "open"
  /\ \/ arrived < Len(text) /\ arrived' = arrived + 1 /\ UNCHANGED stream
     \/ arrived = Len(text) /\ stream' = "ended" /\ UNCHANGED arrived
     \/ stream' = "broken" /\ UNCHANGED arrived
  /\ UNCHANGED <<pc, ctx, reply, text, body, settings, errs>>

ContextEnds ==
  /\ pc \notin {"idle", "done"}
  /\ ctx = "live"
  /\ ctx' = "ended"
  /\ UNCHANGED <<pc, reply, text, arrived, stream, body, settings, errs>>

Next ==
  \/ Settings \/ Responds \/ SendFails \/ checkStatus \/ readSettings
  \/ drainClose \/ Return \/ ServerSends \/ ContextEnds

Spec == Init /\ [][Next]_vars

-----------------------------------------------------------------------------
\* Settings returns its variable only without an error.
Returned == pc = "done" /\ errs = {}

(***************************************************************************)
(* meshserver/funcs.go:132.  Settings that fit the limit, a full one       *)
(* included, are returned as the server wrote them, whatever their blanks, *)
(* comments, repeated keys and further "=".  Longer ones are cut without   *)
(* an error, and the cut can misrepresent one setting only, that of the    *)
(* last line read: every other one in or before it is returned as written. *)
(***************************************************************************)
SettingsSent ==
  Returned =>
    IF Len(text) <= Limit
      THEN settings = Meaning(text)
      ELSE LET read == SubSeq(text, 1, Limit)
               lines == Split(read, "\n")
               cut == lines[Len(lines)]
               whole == Meaning(SubSeq(read, 1, Limit - Len(cut)))
           IN  \E hit \in Substrings(cut) :
                 \A k \in (DOMAIN settings \cup DOMAIN whole) \ {hit} :
                   /\ k \in DOMAIN settings \cap DOMAIN whole
                   /\ settings[k] = whole[k]

(***************************************************************************)
(* A part of an answer is never taken for all of it.  Settings are         *)
(* returned only when the server has finished its answer and said so, what *)
(* lies beyond the limit included, although the parser has by then read    *)
(* whatever there was; and the body is closed by the time they are.        *)
(***************************************************************************)
AllOrNothing ==
  Returned =>
    /\ reply = "ok"
    /\ stream = "ended"
    /\ arrived = Len(text)
    /\ body = "closed"
=============================================================================

------------------------------- MODULE QrLogin -------------------------------
(***************************************************************************)
(* Logging in to a point of sale by QR code: the screen shows a code and   *)
(* waits in the room of its session, a member confirms the session on a    *)
(* telephone, and the token is sent to the room.  A call loads the row of  *)
(* the session, checks it, and saves it later with all columns of what it  *)
(* loaded.  The socket of the screen delivers in order; a new connection   *)
(* is in no room, and the screen does not ask for its room again.          *)
(***************************************************************************)
EXTENDS Naturals, Sequences

CONSTANTS
    Codes,         \* QR sessions
    Members,       \* who can confirm one
    Phones,        \* confirm and cancel calls at once
    Nobody,        \* no session, no member
    MaxQrFaults    \* bound on lost connections and failing calls

ASSUME QrAssumption ==
    /\ Nobody \notin Codes \cup Members
    /\ MaxQrFaults \in Nat

VARIABLES
    session,     \* rows: who confirmed, and whether it was cancelled
    generated,   \* sessions that exist
    expired,     \* those of them that are past expiresAt
    replies,     \* generated sessions on their way to the screen
    phone,       \* confirm and cancel calls in progress
    screen,      \* session that is shown, who is logged in and by which session
    connected,   \* is the socket of the screen?
    rooms,       \* sessions whose room the socket is in
    asks,        \* what the screen asks the server, in order
    tokens,      \* what the server sends to the screen, in order
    raced,       \* history: sessions that a call saved while another had it loaded
    missed,      \* history: sessions whose token did not get through
    qrFaults     \* faults so far

qrVars == <<session, generated, expired, replies, phone, screen, connected,
            rooms, asks, tokens, raced, missed, qrFaults>>

browser == <<screen, connected, rooms, asks, tokens, replies, missed>>

-----------------------------------------------------------------------------

\* confirmedAt and user are set together.
SessionRows == [by : Members \cup {Nobody}, cancelled : BOOLEAN]

NewSession == [by |-> Nobody, cancelled |-> FALSE]

\* What a call remembers: the session, the row it loaded and who calls.
PhoneStates ==
    [pc : {"idle", "checked", "cancelling", "saved"}, code : Codes \cup {Nobody},
     row : SessionRows, member : Members \cup {Nobody}]

Quiet == [pc |-> "idle", code |-> Nobody, row |-> NewSession, member |-> Nobody]

Status(c, row) ==
    CASE row.by # Nobody -> "CONFIRMED"
      [] row.by = Nobody /\ row.cancelled -> "CANCELLED"
      [] row = NewSession /\ c \in expired -> "EXPIRED"
      [] row = NewSession /\ c \notin expired -> "PENDING"

QrInit ==
    /\ session = [c \in Codes |-> NewSession]
    /\ generated = {} /\ expired = {} /\ replies = {}
    /\ phone = [t \in Phones |-> Quiet]
    /\ screen = [code |-> Nobody, user |-> Nobody, by |-> Nobody]
    /\ connected = TRUE
    /\ rooms = {}
    /\ asks = <<>> /\ tokens = <<>>
    /\ raced = {} /\ missed = {}
    /\ qrFaults = 0

Call(t, next) == phone' = [phone EXCEPT ![t] = next]

\* save() of a loaded session writes every column that differs.
SaveSession(t, row, next) ==
    LET c == phone[t].code IN
    /\ session' = [session EXCEPT ![c] = row]
    /\ Call(t, next)
    /\ raced' = raced \cup
           {d \in {c} : \E u \in Phones \ {t} :
                            phone[u].code = c /\ phone[u].pc # "saved"}

-----------------------------------------------------------------------------
(* The screen *)

\* When it opens, when the code expires, and when somebody asks for a new one.
GenerateQrCode(c) ==
    /\ c \notin generated
    /\ generated' = generated \cup {c}
    /\ replies' = replies \cup {c}
    /\ UNCHANGED <<session, expired, phone, screen, connected, rooms, asks,
                   tokens, raced, missed, qrFaults>>

\* mutant: the room of the session is not asked for
ShowQrCode_Deaf(c) ==
    /\ c \in replies
    /\ replies' = replies \ {c}
    /\ screen' = [screen EXCEPT !.code = c]
    /\ UNCHANGED <<session, generated, expired, phone, connected, rooms, asks,
                   tokens, raced, missed, qrFaults>>

\* The room of the session before is not left.
ShowQrCode(c) ==
    /\ c \in replies
    /\ replies' = replies \ {c}
    /\ screen' = [screen EXCEPT !.code = c]
    /\ asks' = Append(asks, <<"subscribe", c>>)
    /\ UNCHANGED <<session, generated, expired, phone, connected, rooms, tokens,
                   raced, missed, qrFaults>>

\* Only the session that is shown, but whoever is logged in by then.
HandleConfirmed ==
    /\ tokens # <<>>
    /\ tokens' = Tail(tokens)
    /\ LET sent == Head(tokens) IN
       IF sent.code = screen.code
       THEN /\ screen' = [screen EXCEPT !.user = sent.member, !.by = sent.code]
            /\ asks' = Append(asks, <<"unsubscribe", sent.code>>)
       ELSE UNCHANGED <<screen, asks>>
    /\ UNCHANGED <<session, generated, expired, replies, phone, connected, rooms,
                   raced, missed, qrFaults>>

-----------------------------------------------------------------------------
(* The socket *)

HandleAsk ==
    /\ connected /\ asks # <<>>
    /\ asks' = Tail(asks)
    /\ rooms' = IF Head(asks)[1] = "subscribe" THEN rooms \cup {Head(asks)[2]}
                ELSE rooms \ {Head(asks)[2]}
    /\ UNCHANGED <<session, generated, expired, replies, phone, screen, connected,
                   tokens, raced, missed, qrFaults>>

\* What the screen asks is kept for the next connection, or was on its way.
LoseConnection ==
    /\ connected /\ qrFaults < MaxQrFaults
    /\ qrFaults' = qrFaults + 1
    /\ connected' = FALSE
    /\ rooms' = {}
    /\ tokens' = <<>>
    /\ asks' \in {asks, <<>>}
    /\ missed' = missed \cup {screen.code}
    /\ UNCHANGED <<session, generated, expired, replies, phone, screen, raced>>

ConnectAgain ==
    /\ ~connected
    /\ connected' = TRUE
    /\ UNCHANGED <<session, generated, expired, replies, phone, screen, rooms,
                   asks, tokens, raced, missed, qrFaults>>

-----------------------------------------------------------------------------
(* POST confirm and cancel *)

\* mutant: a session that somebody confirmed can be confirmed again
BeginConfirm_Any(t, c, m) ==
    /\ phone[t] = Quiet
    /\ c \in generated /\ c \notin expired
    /\ Call(t, [pc |-> "checked", code |-> c, row |-> NewSession, member |-> m])
    /\ UNCHANGED <<session, generated, expired, raced, qrFaults, browser>>

\* The session is loaded and must be pending; then a token is made.
BeginConfirm(t, c, m) ==
    /\ phone[t] = Quiet
    /\ c \in generated /\ Status(c, session[c]) = "PENDING"
    /\ Call(t, [pc |-> "checked", code |-> c, row |-> session[c], member |-> m])
    /\ UNCHANGED <<session, generated, expired, raced, qrFaults, browser>>

\* confirm() looks at the same row again, but at a later time.
Confirm(t) ==
    /\ phone[t].pc = "checked"
    /\ Status(phone[t].code, phone[t].row) = "PENDING"
    /\ SaveSession(t, [phone[t].row EXCEPT !.by = phone[t].member],
                   [phone[t] EXCEPT !.pc = "saved"])
    /\ UNCHANGED <<generated, expired, qrFaults, browser>>

RefuseConfirm(t) ==
    /\ phone[t].pc = "checked"
    /\ Status(phone[t].code, phone[t].row) # "PENDING"
    /\ Call(t, Quiet)
    /\ UNCHANGED <<session, generated, expired, raced, qrFaults, browser>>

\* Whoever is in the room gets the token.
EmitQRConfirmed(t) ==
    LET c == phone[t].code IN
    /\ phone[t].pc = "saved"
    /\ Call(t, Quiet)
    /\ IF c \in rooms
       THEN /\ tokens' = Append(tokens, [code |-> c, member |-> phone[t].member])
            /\ UNCHANGED missed
       ELSE /\ UNCHANGED tokens
            /\ missed' = missed \cup
                   {d \in {c} : d \in replies
                                \/ \E i \in DOMAIN asks : asks[i] = <<"subscribe", d>>}
    /\ UNCHANGED <<session, generated, expired, replies, screen, connected, rooms,
                   asks, raced, qrFaults>>

\* Whatever the status is.
BeginCancel(t, c) ==
    /\ phone[t] = Quiet
    /\ c \in generated
    /\ Call(t, [Quiet EXCEPT !.pc = "cancelling", !.code = c, !.row = session[c]])
    /\ UNCHANGED <<session, generated, expired, raced, qrFaults, browser>>

Cancel(t) ==
    /\ phone[t].pc = "cancelling"
    /\ SaveSession(t, [phone[t].row EXCEPT !.cancelled = TRUE], Quiet)
    /\ UNCHANGED <<generated, expired, qrFaults, browser>>

\* The back end stops, or a statement fails.
PhoneFails(t) ==
    /\ phone[t] # Quiet /\ qrFaults < MaxQrFaults
    /\ qrFaults' = qrFaults + 1
    /\ Call(t, Quiet)
    /\ missed' = missed \cup {phone[t].code}
    /\ UNCHANGED <<session, generated, expired, raced, screen, connected, rooms,
                   asks, tokens, replies>>

Expire(c) ==
    /\ c \in generated \ expired
    /\ expired' = expired \cup {c}
    /\ UNCHANGED <<session, generated, phone, raced, qrFaults, browser>>

QrNext ==
    \/ \E c \in Codes : GenerateQrCode(c) \/ ShowQrCode(c) \/ Expire(c)
    \/ HandleConfirmed \/ HandleAsk \/ LoseConnection \/ ConnectAgain
    \/ \E t \in Phones :
           \/ Confirm(t) \/ RefuseConfirm(t) \/ EmitQRConfirmed(t) \/ Cancel(t)
           \/ PhoneFails(t)
           \/ \E c \in Codes :
                  \/ BeginCancel(t, c)
                  \/ \E m \in Members : BeginConfirm(t, c, m)

QrSpec == QrInit /\ [][QrNext]_qrVars

-----------------------------------------------------------------------------
(* Properties *)

\* The values of the variables.
QrTypeOK ==
    /\ session \in [Codes -> SessionRows]
    /\ expired \subseteq generated /\ replies \subseteq generated
    /\ rooms \subseteq generated /\ raced \subseteq generated
    /\ phone \in [Phones -> PhoneStates]
    /\ screen.code \in generated \cup {Nobody}
    /\ screen.user \in Members \cup {Nobody}

\* Nobody is on its way to or from the screen.
Delivered ==
    /\ connected /\ asks = <<>> /\ tokens = <<>>
    /\ \A t \in Phones : phone[t] = Quiet

\* The screen logs in whoever confirmed the session, and when everything is
\* delivered has logged in whoever confirmed the session it shows: unless two calls
\* on that session overlapped, the connection was lost while it was shown, the call
\* failed, or it was confirmed before the screen was in its room.
LoginIsConfirmed ==
    /\ screen.by \notin raced \cup {Nobody} => session[screen.by].by = screen.user
    /\ Delivered /\ screen.code \notin raced \cup missed \cup {Nobody} =>
           session[screen.code].by \in {Nobody} \cup
               (IF screen.by = screen.code THEN {screen.user} ELSE {})
=============================================================================

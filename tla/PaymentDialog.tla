---------------------------- MODULE PaymentDialog ----------------------------
(***************************************************************************)
(* The card payment dialog of the point of sale: the Pinia store that      *)
(* starts, follows and cancels a terminal payment, and the modal around    *)
(* it.  The browser talks to the back end by requests whose replies come   *)
(* in any order, and by a socket whose room is joined only when the policy *)
(* of the room has been checked.  The back end reports a payment after     *)
(* every commit: it reads the state then, and sends it later.  What the    *)
(* calls and webhooks do to a payment is that of TerminalPayments; here it *)
(* is its state.  A payment is never reported as failed, so the phase      *)
(* declined is never reached.                                              *)
(***************************************************************************)
EXTENDS Naturals

CONSTANTS
    Sales,          \* ids of terminal payments
    NoSale,         \* no terminal payment
    MaxDrops,       \* bound on lost connections of the socket
    MaxLostReplies  \* bound on requests that are lost, or fail though they are right

ASSUME DialogAssumption ==
    NoSale \notin Sales /\ MaxDrops \in Nat /\ MaxLostReplies \in Nat

VARIABLES
    state,      \* the committed state of each payment
    news,       \* reports of the back end on their way
    requests,   \* requests of the browser and the replies to them
    socket,     \* its connection and rooms, and the rooms it is joining
    listening,  \* the payment whose updates are listened for
    payment,    \* the payment in the store
    phase,      \* what the cashier is looking at
    modal,      \* visible, and the guards against pressing twice
    starter,    \* how far startPayment has come
    latest,     \* history: the payment that was created last
    cleared,    \* history: payments for which the cart was cleared
    givenUp,    \* history: payments that the browser tried to cancel
    unheard,    \* history: reported during a join and not looked up since
    misled,     \* history: told of a cancellation that was not this payment's
    drops, lostReplies

dialogVars == <<state, news, requests, socket, listening, payment, phase, modal,
                starter, latest, cleared, givenUp, unheard, misled, drops,
                lostReplies>>

dialogHistory == <<latest, cleared, givenUp, unheard, misled>>
dialogFaults == <<drops, lostReplies>>

-----------------------------------------------------------------------------

SaleStates == {"none", "created", "processing", "paid", "cancelled"}
OpenStates == {"created", "processing"}

Phases == {"idle", "preparing", "waiting", "paid", "cancelled", "error"}

\* A report is due until the state is read.
Reports == [sale : Sales, says : SaleStates \cup {"due"}]

\* "look" is a request of startPayment, "relook" one after a reconnect.
Requests ==
    [kind : {"start", "cancel", "undo", "look", "relook"}, sale : Sales,
     reply : SaleStates \cup {"sent", "failed", "refused"}]

Starters == {"none", "preparing", "starting", "undoing", "looking"}

DialogInit ==
    /\ state = [p \in Sales |-> "none"]
    /\ news = {}
    /\ requests = {}
    /\ socket = [up |-> TRUE, rooms |-> {}, joining |-> {}]
    /\ listening = NoSale
    /\ payment = NoSale
    /\ phase = "idle"
    /\ modal = [visible |-> FALSE, cancelling |-> FALSE, closing |-> FALSE]
    /\ starter = "none"
    /\ latest = NoSale
    /\ cleared = {}
    /\ givenUp = {}
    /\ unheard = {}
    /\ misled = FALSE
    /\ drops = 0
    /\ lostReplies = 0

Request(kind, p) == [kind |-> kind, sale |-> p, reply |-> "sent"]

Report(p) == news' = news \cup {[sale |-> p, says |-> "due"]}

\* unsubscribe leaves the room, but does not stop a join that is being checked.
StopListening ==
    /\ listening' = NoSale
    /\ socket' = [socket EXCEPT !.rooms = @ \ {listening}]

\* applyUpdate: only of the payment that is waited for
ApplyUpdate(p, says) ==
    IF phase = "waiting" /\ p = payment /\ says \in {"paid", "cancelled"}
    THEN phase' = says /\ StopListening
    ELSE UNCHANGED <<phase, listening, socket>>

\* reconcile asks for the payment that is waited for.
Reconciles == phase = "waiting" /\ payment # NoSale

-----------------------------------------------------------------------------
(* The cashier *)

\* The modal opens, which starts a payment unless the last one is still being
\* started; then nothing is done, and closing keeps its value.  (The dialog is
\* opened with a point of sale and a request: without them it closes again.)
OpenDialog ==
    /\ ~modal.visible
    /\ IF starter = "none"
       THEN /\ modal' = [visible |-> TRUE, cancelling |-> FALSE, closing |-> FALSE]
            /\ starter' = "preparing"
            /\ phase' = "preparing"
            /\ payment' = NoSale
            /\ StopListening
       ELSE /\ modal' = [modal EXCEPT !.visible = TRUE]
            /\ UNCHANGED <<starter, phase, payment, listening, socket>>
    /\ UNCHANGED <<state, news, requests, dialogHistory, dialogFaults>>

\* cancelPayment stops listening at once.
PressCancel ==
    /\ modal.visible /\ phase = "waiting" /\ ~modal.cancelling
    /\ modal' = [modal EXCEPT !.cancelling = TRUE]
    /\ requests' = requests \cup {Request("cancel", payment)}
    /\ givenUp' = givenUp \cup {payment}
    /\ StopListening
    /\ UNCHANGED <<state, news, payment, phase, starter, latest, cleared,
                   unheard, misled, dialogFaults>>

\* close, and reset
PressClose ==
    /\ modal.visible /\ phase \in {"cancelled", "error"} /\ ~modal.closing
    /\ modal' = [modal EXCEPT !.visible = FALSE, !.closing = TRUE]
    /\ phase' = "idle"
    /\ payment' = NoSale
    /\ StopListening
    /\ UNCHANGED <<state, news, requests, starter, dialogHistory, dialogFaults>>

\* The watcher of the phase clears the cart and closes the dialog.
ClearCart ==
    /\ phase = "paid"
    /\ cleared' = cleared \cup {payment}
    /\ modal' = [modal EXCEPT !.visible = FALSE]
    /\ phase' = "idle"
    /\ payment' = NoSale
    /\ StopListening
    /\ UNCHANGED <<state, news, requests, starter, latest, givenUp, unheard,
                   misled, dialogFaults>>

-----------------------------------------------------------------------------
(* startPayment *)

\* There is not exactly one reader, or the readers cannot be listed.
NoReaderFound ==
    /\ starter = "preparing"
    /\ starter' = "none"
    /\ phase' = "error"
    /\ UNCHANGED <<state, news, requests, socket, listening, payment, modal,
                   dialogHistory, dialogFaults>>

\* Nothing catches this one: the phase stays.
CreateFails ==
    /\ starter = "preparing"
    /\ starter' = "none"
    /\ UNCHANGED <<state, news, requests, socket, listening, payment, phase,
                   modal, dialogHistory, dialogFaults>>

\* createTerminalPayment; then listenFor, and after that the reader is asked.
\* There always is a socket, connected or not, so listenFor succeeds.
CreateSale(p) ==
    /\ starter = "preparing"
    /\ state[p] = "none"
    /\ state' = [state EXCEPT ![p] = "created"]
    /\ starter' = "starting"
    /\ payment' = p
    /\ phase' = "waiting"
    /\ listening' = p
    /\ socket' = [socket EXCEPT !.joining = IF socket.up THEN @ \cup {p} ELSE @]
    /\ requests' = requests \cup {Request("start", p)}
    /\ latest' = p
    /\ UNCHANGED <<news, modal, cleared, givenUp, unheard, misled, dialogFaults>>

Replied(kind) == {r \in requests : r.kind = kind /\ r.reply # "sent"}

\* The last step of startPayment looks the payment up.
Started(r) ==
    /\ r \in Replied("start") /\ r.reply # "failed"
    /\ requests' = (requests \ {r}) \cup
           (IF Reconciles THEN {Request("look", payment)} ELSE {})
    /\ starter' = IF Reconciles THEN "looking" ELSE "none"
    /\ UNCHANGED <<state, news, socket, listening, payment, phase, modal,
                   dialogHistory, dialogFaults>>

\* The payment is cancelled, unless the dialog was closed meanwhile.
NotStarted(r) ==
    /\ r \in Replied("start") /\ r.reply = "failed"
    /\ IF payment = NoSale
       THEN /\ requests' = requests \ {r}
            /\ starter' = "none"
            /\ phase' = "error"
            /\ UNCHANGED givenUp
       ELSE /\ requests' = (requests \ {r}) \cup {Request("undo", payment)}
            /\ starter' = "undoing"
            /\ givenUp' = givenUp \cup {payment}
            /\ UNCHANGED phase
    /\ StopListening
    /\ UNCHANGED <<state, news, payment, modal, latest, cleared, unheard, misled,
                   dialogFaults>>

\* Whether that worked makes no difference.
Undone(r) ==
    /\ r \in Replied("undo")
    /\ requests' = requests \ {r}
    /\ starter' = "none"
    /\ phase' = "error"
    /\ payment' = IF r.reply = "failed" THEN payment ELSE r.sale
    /\ UNCHANGED <<state, news, socket, listening, modal, dialogHistory, dialogFaults>>

\* reconcile ends.  One that was refused is taken for a cancellation of what is
\* waited for now; one that failed is left alone.
LookedUp(r) ==
    /\ r \in Replied("look") \cup Replied("relook")
    /\ requests' = requests \ {r}
    /\ starter' = IF r.kind = "look" THEN "none" ELSE starter
    /\ IF r.reply = "refused" /\ phase = "waiting"
       THEN /\ phase' = "cancelled"
            /\ StopListening
            /\ misled' = (misled \/ state[payment] # "cancelled")
       ELSE ApplyUpdate(r.sale, r.reply) /\ UNCHANGED misled
    /\ UNCHANGED <<state, news, payment, modal, latest, cleared, givenUp, unheard,
                   dialogFaults>>

\* mutant: that a cancellation was refused goes unnoticed
CancelReplied_Always(r) ==
    /\ r \in Replied("cancel")
    /\ requests' = requests \ {r}
    /\ modal' = [modal EXCEPT !.cancelling = FALSE]
    /\ payment' = r.sale
    /\ phase' = "cancelled"
    /\ misled' = (misled \/ payment # r.sale)
    /\ UNCHANGED <<state, news, socket, listening, starter, latest, cleared,
                   givenUp, unheard, dialogFaults>>

\* Which payment is in the store by now is not looked at.
CancelReplied(r) ==
    /\ r \in Replied("cancel")
    /\ requests' = requests \ {r}
    /\ modal' = [modal EXCEPT !.cancelling = FALSE]
    /\ IF r.reply = "failed"
       THEN UNCHANGED <<payment, phase, misled>>
       ELSE /\ payment' = r.sale
            /\ phase' = "cancelled"
            /\ misled' = (misled \/ payment # r.sale)
    /\ UNCHANGED <<state, news, socket, listening, starter, latest, cleared,
                   givenUp, unheard, dialogFaults>>

-----------------------------------------------------------------------------
(* The back end *)

Sent(kind) == {r \in requests : r.kind = kind /\ r.reply = "sent"}

Reply(r, says) == requests' = (requests \ {r}) \cup {[r EXCEPT !.reply = says]}

HandleStart(r) ==
    /\ r \in Sent("start")
    /\ state[r.sale] \in OpenStates
    /\ state' = [state EXCEPT ![r.sale] = "processing"]
    /\ Reply(r, "processing")
    /\ Report(r.sale)
    /\ UNCHANGED <<socket, listening, payment, phase, modal, starter,
                   dialogHistory, dialogFaults>>

HandleCancel(r) ==
    /\ r \in Sent("cancel") \cup Sent("undo")
    /\ state[r.sale] \in OpenStates
    /\ state' = [state EXCEPT ![r.sale] = "cancelled"]
    /\ Reply(r, "cancelled")
    /\ Report(r.sale)
    /\ UNCHANGED <<socket, listening, payment, phase, modal, starter,
                   dialogHistory, dialogFaults>>

\* A 422: the payment is paid or cancelled, or the reader is busy.
Refuse(r) ==
    /\ \/ r \in Sent("start")
       \/ r \in Sent("cancel") \cup Sent("undo") /\ state[r.sale] \notin OpenStates
    /\ Reply(r, "failed")
    /\ UNCHANGED <<state, news, socket, listening, payment, phase, modal,
                   starter, dialogHistory, dialogFaults>>

HandleLook(r) ==
    /\ r \in Sent("look") \cup Sent("relook")
    /\ Reply(r, state[r.sale])
    /\ unheard' = unheard \ {r.sale}
    /\ UNCHANGED <<state, news, socket, listening, payment, phase, modal,
                   starter, latest, cleared, givenUp, misled, dialogFaults>>

\* The webhook of a captured payment, or of one that Stripe cancels.
Webhook(p, s) ==
    /\ \/ s = "paid" /\ state[p] = "processing"
       \/ s = "cancelled" /\ state[p] \in OpenStates
    /\ state' = [state EXCEPT ![p] = s]
    /\ Report(p)
    /\ UNCHANGED <<requests, socket, listening, payment, phase, modal, starter,
                   dialogHistory, dialogFaults>>

\* emitStateChange reads what is committed by then ...
ReadState(n) ==
    /\ n \in news /\ n.says = "due"
    /\ news' = (news \ {n}) \cup {[n EXCEPT !.says = state[n.sale]]}
    /\ UNCHANGED <<state, requests, socket, listening, payment, phase, modal,
                   starter, dialogHistory, dialogFaults>>

\* ... and sends it to whoever is in the room.
EmitState(n) ==
    /\ n \in news /\ n.says # "due"
    /\ news' = news \ {n}
    /\ IF n.sale \in socket.rooms
       THEN ApplyUpdate(n.sale, n.says) /\ UNCHANGED unheard
       ELSE /\ unheard' = unheard \cup (socket.joining \cap {n.sale})
            /\ UNCHANGED <<phase, listening, socket>>
    /\ UNCHANGED <<state, requests, payment, modal, starter, latest, cleared,
                   givenUp, misled, dialogFaults>>

\* The policy of the room was checked.
JoinRoom(p) ==
    /\ p \in socket.joining
    /\ socket' = [socket EXCEPT !.joining = @ \ {p}, !.rooms = @ \cup {p}]
    /\ UNCHANGED <<state, news, requests, listening, payment, phase, modal,
                   starter, dialogHistory, dialogFaults>>

-----------------------------------------------------------------------------
(* The network *)

\* A report that is sent now is lost.
Disconnect ==
    /\ socket.up /\ drops < MaxDrops
    /\ drops' = drops + 1
    /\ socket' = [up |-> FALSE, rooms |-> {}, joining |-> {}]
    /\ UNCHANGED <<state, news, requests, listening, payment, phase, modal,
                   starter, dialogHistory, lostReplies>>

\* mutant: the room is joined again, but the payment not looked up
Reconnect_Blind ==
    /\ ~socket.up
    /\ socket' = [socket EXCEPT !.up = TRUE, !.joining = {listening} \ {NoSale}]
    /\ UNCHANGED <<state, news, requests, listening, payment, phase, modal,
                   starter, dialogHistory, dialogFaults>>

\* onConnect
Reconnect ==
    /\ ~socket.up
    /\ socket' = [socket EXCEPT !.up = TRUE, !.joining = {listening} \ {NoSale}]
    /\ requests' = requests \cup
           (IF listening # NoSale /\ Reconciles THEN {Request("relook", payment)} ELSE {})
    /\ UNCHANGED <<state, news, listening, payment, phase, modal, starter,
                   dialogHistory, dialogFaults>>

\* The request or its reply is lost, or the back end fails.
LoseReply(r) ==
    /\ r \in requests /\ r.reply # "failed" /\ lostReplies < MaxLostReplies
    /\ lostReplies' = lostReplies + 1
    /\ Reply(r, "failed")
    /\ UNCHANGED <<state, news, socket, listening, payment, phase, modal,
                   starter, dialogHistory, drops>>

\* A 403 or a 404: a point of sale may read the payments that it made, also when
\* they are cancelled, but its roles change, and with a transfer its payment goes.
RefuseLook(r) ==
    /\ r \in Sent("look") \cup Sent("relook") /\ lostReplies < MaxLostReplies
    /\ lostReplies' = lostReplies + 1
    /\ Reply(r, "refused")
    /\ UNCHANGED <<state, news, socket, listening, payment, phase, modal,
                   starter, dialogHistory, drops>>

DialogNext ==
    \/ OpenDialog \/ PressCancel \/ PressClose \/ ClearCart
    \/ NoReaderFound \/ CreateFails
    \/ \E p \in Sales :
           \/ CreateSale(p) \/ JoinRoom(p)
           \/ \E s \in {"paid", "cancelled"} : Webhook(p, s)
    \/ \E r \in requests :
           \/ Started(r) \/ NotStarted(r) \/ Undone(r) \/ LookedUp(r)
           \/ CancelReplied(r)
           \/ HandleStart(r) \/ HandleCancel(r) \/ Refuse(r) \/ HandleLook(r)
           \/ LoseReply(r) \/ RefuseLook(r)
    \/ \E n \in news : ReadState(n) \/ EmitState(n)
    \/ Disconnect \/ Reconnect

DialogSpec == DialogInit /\ [][DialogNext]_dialogVars

-----------------------------------------------------------------------------
(* Properties *)

\* The values of the variables.
DialogTypeOK ==
    /\ state \in [Sales -> SaleStates]
    /\ news \subseteq Reports
    /\ requests \subseteq Requests
    /\ socket \in [up : BOOLEAN, rooms : SUBSET Sales, joining : SUBSET Sales]
    /\ {listening, payment, latest} \subseteq Sales \cup {NoSale}
    /\ phase \in Phases
    /\ modal \in [visible : BOOLEAN, cancelling : BOOLEAN, closing : BOOLEAN]
    /\ starter \in Starters
    /\ cleared \subseteq Sales /\ givenUp \subseteq Sales /\ unheard \subseteq Sales
    /\ misled \in BOOLEAN
    /\ drops \in 0 .. MaxDrops /\ lostReplies \in 0 .. MaxLostReplies

\* "The payment was cancelled. Nothing has been charged" is said only of the
\* payment that was made last, and when it is cancelled in the back end, unless
\* the reply to a cancellation came so late that another payment was there, or a
\* look-up was refused, which is taken for a cancellation.
NothingCharged == phase = "cancelled" => state[latest] = "cancelled" \/ misled

\* Nothing is on its way, and the socket is connected.
Settled == news = {} /\ requests = {} /\ socket.up

\* When everything is delivered, the cart of a paid payment has been cleared, or
\* is about to be, however often the connection was lost: unless the browser
\* tried to cancel the payment, after which it does not listen any more; a request
\* failed, or the reply to an earlier cancellation came late; or the report came
\* while the room was being joined and after the payment had been looked up, which
\* nothing covers.
PaidIsShown ==
    Settled =>
        \A p \in Sales : state[p] = "paid" =>
            \/ p \in cleared \cup givenUp \cup unheard
            \/ phase = "paid" /\ payment = p
            \/ lostReplies > 0 \/ misled

-----------------------------------------------------------------------------
(* What the comments say and the code does not do                           *)

\* "startPayment has already put the reason on the store for display", when it
\* has failed.
ReasonIsShown == phase = "preparing" => starter # "none"
=============================================================================

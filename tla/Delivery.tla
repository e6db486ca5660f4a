------------------------------ MODULE Delivery ------------------------------
(***************************************************************************)
(* How one alert leaves by a channel: what a channel accepts of its        *)
(* configuration (notifier.Build and the constructors), what it says, the  *)
(* conversation with the SMTP server (email.go), the request of the others *)
(* (postRaw), and what the dispatcher makes of each refusal (IsPermanent). *)
(* The other side answers whatever it likes, or not at all, or sends the   *)
(* request elsewhere; the deadline is a conversation that breaks.          *)
(***************************************************************************)
EXTENDS Integers, Sequences, FiniteSets

CONSTANTS
    None,
    Configs,        \* what a client submits as a channel
    Unsafe,         \* addresses the envelope cannot carry
    Codes,          \* of the HTTP answers
    Events,         \* [mention, late]: an alert's text pings; a template fails on it
    MaxAttempts,    \* Options.MaxAttempts
    MaxAlerts       \* bound

VARIABLES
    channel,        \* the configuration stored, or None
    event,
    talk,           \* where the delivery is
    tries,          \* deliveries attempted for this alert
    result,         \* what the counters say of it
    alerts,
    got, lost,      \* ghost: copies each side received; of which no answer tells
    heard,          \* ghost: the answers to the step it is at, of every recipient
    clear,          \* ghost: what crossed the network unencrypted
    told, pinged    \* ghost: the text that arrived, whether it woke everybody

vars == <<channel, event, talk, tries, result, alerts, got, lost, heard, clear, told, pinged>>
ghosts == <<got, lost, clear, told, pinged>>

Them == "them"      \* the other side of a channel that is not e-mail
Idle(once) == [step |-> "idle", once |-> once]
Mail(c) == c.kind = "email"
Readers(c) == IF Mail(c) THEN {c.to[k] : k \in DOMAIN c.to} ELSE {Them}
-----------------------------------------------------------------------------
(***************************************************************************)
(* What is accepted.                                                       *)
(***************************************************************************)
\* Mutant of Visible: the template is handed the whole monitor.
VisibleAll == {"name", "target", "group", "config"}

\* templateData.
Visible == {"name", "target", "group"}

\* t.Execute: a template that asks for what it is not given fails, and one may
\* fail on some events only.
Executes(t, e) == /\ t = "config" => "config" \in Visible
                  /\ t = "late" => ~ e.late

\* compileTemplate: parsed, and rehearsed on an example.
Compiles(t) == t # "broken" /\ Executes(t, [mention |-> FALSE, late |-> FALSE])

\* newEmail.
AcceptsMail(c) ==
    /\ c.host /\ c.security \in {"starttls", "tls", "none"}
    /\ c.security = "none" => ~ c.user
    /\ c.to # <<>> /\ \A k \in DOMAIN c.to : c.to[k] \notin Unsafe

\* Mutant of AcceptsTopic: a token may go by http.
AcceptsTopicOpen(c) ==
    /\ c.url \in {"blank", "http", "local", "https"} /\ c.topic # "odd"
    /\ c.url = "blank" => c.topic = "long"

\* NewNtfy: a server with no address is the public one, where the topic is all
\* there is to guess.
AcceptsTopic(c) ==
    /\ c.url \in {"blank", "http", "local", "https"} /\ c.topic # "odd"
    /\ c.url = "blank" => c.topic = "long"
    /\ c.token => c.url # "http"

\* NewWebhook; NewDiscord and NewSlack, whose body is theirs; NewTeams, which
\* is reached by https only.
AcceptsHook(c) == c.url # "blank" /\ Compiles(c.tmpl)
AcceptsFixed(c) == AcceptsHook(c) /\ ~ c.body
AcceptsTeams(c) == AcceptsFixed(c) /\ c.url = "https"

\* Build.
Accepts(c) ==
    CASE c.kind = "email" -> AcceptsMail(c)
      [] c.kind = "ntfy" -> AcceptsTopic(c)
      [] c.kind = "teams" -> AcceptsTeams(c)
      [] c.kind \in {"discord", "slack"} -> AcceptsFixed(c)
      [] c.kind = "webhook" -> AcceptsHook(c)

\* What renderWith puts in the message: the template's, or the default text.
Text(c, e) ==
    IF Mail(c) \/ c.kind = "ntfy" THEN "none" ELSE IF Executes(c.tmpl, e) THEN c.tmpl ELSE "none"

\* Mutant of Pings: nothing is escaped.
PingsRaw(c, e) == c.kind = "slack" /\ (e.mention \/ Text(c, e) = "mention")

\* slackEscapeOutside spares only the template; Discord is told to ping nobody.
Pings(c, e) == c.kind = "slack" /\ Text(c, e) = "mention"
-----------------------------------------------------------------------------
(***************************************************************************)
(* What a refusal means.                                                   *)
(***************************************************************************)
Replies == {"ok", "later", "refused", "broken"}

\* IsPermanent, of the SMTP answers: 5xx.
Hopeless(reply) == reply = "refused"

\* Mutant of HopelessCode: every 4xx.
HopelessCodeAll(code) == code \in 400..499

\* statusError.Permanent.
HopelessCode(code) == code \in {400, 401, 403, 404, 413, 422}

\* deliver, told of an error: dropped, dropped for the last time, or waiting.
\* The button of the panel tries once.
Fails(hopeless) ==
    IF hopeless \/ tries >= MaxAttempts \/ talk.once
      THEN talk' = Idle(talk.once) /\ result' = "dropped"
      ELSE talk' = [step |-> "waiting", once |-> FALSE] /\ result' = result

Succeeds == talk' = Idle(talk.once) /\ result' = "delivered"
Goes(step) == talk' = [talk EXCEPT !.step = step] /\ result' = result
Hears(answer) == heard' = (IF talk.step = "rcpt" THEN heard ELSE {}) \cup {answer}
Keep == UNCHANGED <<channel, event, tries, alerts>>

Dialled(once) ==
    [step |-> IF Mail(channel) THEN "dial" ELSE "post", once |-> once, secure |-> FALSE,
     next |-> 1, accepted |-> {}, hopeless |-> FALSE, later |-> FALSE,
     plain |-> ~ Mail(channel) /\ channel.url = "http", away |-> FALSE, bodiless |-> FALSE]

\* handleCreateChannel, which builds before it stores.
Submit(c) ==
    /\ channel = None /\ Accepts(c) /\ channel' = c
    /\ got' = [r \in Readers(c) |-> 0]
    /\ UNCHANGED <<event, talk, tries, result, alerts, lost, heard, clear, told, pinged>>

\* deliver, or handleTestChannel.
Begin(e, once) ==
    /\ channel # None /\ talk.step = "idle" /\ alerts < MaxAlerts /\ alerts' = alerts + 1
    /\ event' = e /\ tries' = 1 /\ talk' = Dialled(once) /\ result' = "none"
    /\ got' = [r \in DOMAIN got |-> 0] /\ lost' = 0 /\ heard' = {}
    /\ told' = "nothing" /\ pinged' = FALSE /\ UNCHANGED <<channel, clear>>

\* The wait is over; or the process stops, and this attempt is the last.
Retry(stopping) ==
    /\ talk.step = "waiting"
    /\ tries' = tries + 1 /\ talk' = Dialled(stopping) /\ heard' = {}
    /\ UNCHANGED <<channel, event, result, alerts, ghosts>>
-----------------------------------------------------------------------------
(***************************************************************************)
(* The conversation by SMTP.  EHLO goes with the step that follows it.     *)
(***************************************************************************)
\* The first commands of a conversation that is as safe as it will be.
Opening == IF channel.user THEN "auth" ELSE "mail"
Crosses(what) == clear' = IF talk.secure THEN clear ELSE clear \cup {what}

\* connect: the connection, and the handshake where it is encrypted from the start.
Dial(reply) ==
    /\ talk.step = "dial" /\ reply \in {"ok", "broken"} /\ Hears(reply)
    /\ IF reply = "ok"
         THEN talk' = [talk EXCEPT !.step = "greeting", !.secure = channel.security = "tls"]
              /\ result' = result
         ELSE Fails(FALSE)
    /\ Keep /\ UNCHANGED ghosts

Greeting(reply) ==
    /\ talk.step = "greeting" /\ Hears(reply)
    /\ IF reply = "ok" THEN Goes(IF channel.security = "starttls" THEN "starttls" ELSE Opening)
                       ELSE Fails(Hopeless(reply))
    /\ Keep /\ UNCHANGED ghosts

\* Mutant of MustOffer: with no STARTTLS, as it is.
MustOfferNot == FALSE

\* A server that does not offer it is not talked to in the clear.
MustOffer == TRUE

\* explainTLS keeps no code of the answer: every failure may pass.
StartTLS(offered, reply) ==
    /\ talk.step = "starttls" /\ Hears(IF reply = "refused" THEN "later" ELSE reply)
    /\ IF ~ offered /\ ~ MustOffer THEN Goes(Opening)
       ELSE IF offered /\ reply = "ok"
         THEN talk' = [talk EXCEPT !.step = Opening, !.secure = TRUE] /\ result' = result
         ELSE Fails(FALSE)
    /\ Keep /\ UNCHANGED ghosts

\* auth: neither PLAIN nor LOGIN starts unencrypted, and that failure has no code.
Auth(reply) ==
    /\ talk.step = "auth" /\ (~ talk.secure => reply = "broken")
    /\ Hears(reply)
    /\ IF reply = "ok" THEN Goes("mail") ELSE Fails(Hopeless(reply))
    /\ (IF reply = "broken" THEN clear' = clear ELSE Crosses("password")) /\ Keep /\ UNCHANGED <<got, lost, told, pinged>>

Sender(reply) ==
    /\ talk.step = "mail" /\ Hears(reply)
    /\ IF reply = "ok" THEN Goes("rcpt") ELSE Fails(Hopeless(reply))
    /\ Keep /\ UNCHANGED ghosts

\* Mutant of Verdict: the last refusal speaks for all of them.
VerdictLast(t, reply) == IF t.accepted # {} THEN "go on" ELSE IF Hopeless(reply) THEN "hopeless" ELSE "later"

\* recipients: one accepted is enough; one that may pass leaves hope.
Verdict(t, reply) ==
    IF t.accepted # {} THEN "go on" ELSE IF t.later THEN "later" ELSE "hopeless"

Recipient(reply) ==
    LET t == [talk EXCEPT !.next = @ + 1,
                !.accepted = IF reply = "ok" THEN @ \cup {channel.to[talk.next]} ELSE @,
                !.hopeless = @ \/ Hopeless(reply), !.later = @ \/ reply = "later"]
    IN /\ talk.step = "rcpt" /\ Hears(reply)
       /\ IF reply = "broken" THEN Fails(FALSE)
          ELSE IF t.next <= Len(channel.to) THEN talk' = t /\ result' = result
          ELSE IF Verdict(t, reply) = "go on" THEN talk' = [t EXCEPT !.step = "data"] /\ result' = result
          ELSE Fails(Verdict(t, reply) = "hopeless")
       /\ Keep /\ UNCHANGED ghosts

Data(reply) ==
    /\ talk.step = "data" /\ Hears(reply)
    /\ IF reply = "ok" THEN Goes("write") ELSE Fails(Hopeless(reply))
    /\ Keep /\ UNCHANGED ghosts

Arrives(whom) ==
    /\ got' = [r \in DOMAIN got |-> IF r \in whom THEN got[r] + 1 ELSE got[r]]
    /\ told' = Text(channel, event) /\ pinged' = (pinged \/ Pings(channel, event))

\* The end of DATA: accepted or not, and the answer arrives or not.
Write(reply) ==
    /\ talk.step = "write" /\ Hears(reply) /\ Crosses("alert")
    /\ IF reply = "ok" THEN Goes("quit") ELSE Fails(Hopeless(reply))
    /\ \/ reply \in {"ok", "broken"} /\ Arrives(talk.accepted)
          /\ lost' = IF reply = "ok" THEN lost ELSE lost + 1
       \/ reply # "ok" /\ UNCHANGED <<got, lost, told, pinged>>
    /\ Keep

\* Mutant of Parting: the answer to QUIT counts.
PartingStrict(reply) == IF reply = "ok" THEN Succeeds ELSE Fails(FALSE)

\* A message accepted is delivered, whatever QUIT says.
Parting(reply) == Succeeds

Quit(reply) ==
    /\ talk.step = "quit" /\ Hears("ok")
    /\ Parting(reply) /\ Keep /\ UNCHANGED ghosts
-----------------------------------------------------------------------------
\* The client of postRaw is http.DefaultClient, which follows redirects: the
\* alert is sent again by 307 and 308, and by the others a GET with no body goes
\* in its place.  The token goes along until the request leaves the host.
Redirects == {301, 302, 303, 307, 308}
Empties(code) == code \in 301..303

\* What a request shows on its way, and by whose choice: a token goes where the
\* panel was told, or where that server sent it.
Shown ==
    clear' = IF talk.plain /\ ~ talk.away /\ channel.token
               THEN clear \cup {IF channel.url = "http" THEN "token" ELSE "token redirected"}
               ELSE clear

\* The server may have taken the alert in, and say where to see it.  The client
\* gives up at the tenth, which is an answer that does not come.
Redirect(code, plain, away, arrives) ==
    /\ talk.step = "post" /\ code \in Redirects /\ Shown
    /\ arrives => Empties(code) /\ ~ talk.bodiless
    /\ talk' = [talk EXCEPT !.bodiless = @ \/ Empties(code), !.away = @ \/ away,
                            !.plain = plain /\ (away \/ channel.url # "local")]
    /\ IF arrives THEN Arrives({Them}) ELSE UNCHANGED <<got, told, pinged>>
    /\ lost' = IF arrives THEN lost + 1 ELSE lost
    /\ result' = result /\ heard' = heard /\ Keep

\* postRaw: the request arrives or not, is answered or not; a gateway may refuse
\* what it let through, and a GET is answered like a delivery.
Post(code, arrives) ==
    LET fine == code # None /\ code < 300
    IN /\ talk.step = "post" /\ Shown
       /\ Hears(IF code = None THEN "broken" ELSE IF fine THEN "ok"
                ELSE IF code \in 400..428 \ {408} THEN "refused" ELSE "later")
       /\ arrives => ~ talk.bodiless /\ (code # None => code \notin 300..499)
       /\ fine => arrives \/ talk.bodiless
       /\ IF fine THEN Succeeds ELSE Fails(code # None /\ HopelessCode(code))
       /\ IF arrives THEN Arrives({Them})
          ELSE UNCHANGED <<got, pinged>> /\ told' = IF fine THEN "visit" ELSE told
       /\ lost' = IF arrives /\ ~ fine THEN lost + 1 ELSE lost
       /\ Keep

Init ==
    /\ channel = None /\ event = None /\ talk = Idle(FALSE) /\ tries = 0 /\ result = "none" /\ alerts = 0
    /\ got = [r \in {} |-> 0] /\ lost = 0 /\ heard = {} /\ clear = {}
    /\ told = "nothing" /\ pinged = FALSE

Next ==
    \/ \E c \in Configs : Submit(c)
    \/ \E e \in Events, once \in BOOLEAN : Begin(e, once)
    \/ \E stopping \in BOOLEAN : Retry(stopping)
    \/ \E reply \in Replies :
         \/ Dial(reply) \/ Greeting(reply) \/ Auth(reply) \/ Sender(reply) \/ Recipient(reply)
         \/ Data(reply) \/ Write(reply) \/ Quit(reply)
         \/ \E offered \in BOOLEAN : StartTLS(offered, reply)
    \/ \E code \in Codes \cup {None}, arrives \in BOOLEAN :
         \/ Post(code, arrives)
         \/ \E plain, away \in BOOLEAN : Redirect(code, plain, away, arrives)

Spec == Init /\ [][Next]_vars
-----------------------------------------------------------------------------
TypeOK ==
    /\ channel \in Configs \cup {None} /\ event \in Events \cup {None}
    /\ talk.step \in {"idle", "waiting", "dial", "greeting", "starttls", "auth", "mail", "rcpt",
                      "data", "write", "quit", "post"}
    /\ tries \in 0..MaxAttempts + 1 /\ result \in {"none", "delivered", "dropped"}
    /\ alerts \in 0..MaxAlerts /\ lost \in 0..MaxAttempts + 1
    /\ \A r \in DOMAIN got : got[r] \in 0..MaxAttempts + 1

\* What the panel was told would be encrypted is: no password nor token goes in
\* the clear, nor an alert by a server that ought to encrypt (connect, NewNtfy).
\* Of a token that the server itself redirects to http this does not hold.
NothingInTheClear ==
    /\ clear \cap {"password", "token"} = {}
    /\ channel # None /\ Mail(channel) /\ channel.security # "none" => clear = {}

\* Nobody receives an alert twice but for an answer that was lost, and one that
\* counts as lost reached nobody but for the same.  One that counts as delivered
\* was received, unless a redirect left of it a GET (email.Send, deliver).
NoSecondCopy ==
    /\ \A r \in DOMAIN got : got[r] <= lost + 1
    /\ result = "dropped" /\ lost = 0 => \A r \in DOMAIN got : got[r] = 0
    /\ result = "delivered" /\ told # "visit" => \E r \in DOMAIN got : got[r] > 0

\* While another attempt may help there is one: an alert is given up early only
\* on answers that no wait will change, of every recipient if it was refused by
\* recipients (IsPermanent, recipients).
GivesUpOnlyWhenHopeless ==
    result = "dropped" /\ tries < MaxAttempts /\ ~ talk.once =>
        "refused" \in heard /\ heard \cap {"later", "broken"} = {}

\* A channel tells no secret of the monitor, and only who wrote its template
\* wakes everybody (templateData, slackEscapeOutside).
TellsWhatItMay ==
    /\ told # "config"
    /\ pinged => channel.tmpl = "mention"

DeliverySound == NothingInTheClear /\ NoSecondCopy /\ GivesUpOnlyWhenHopeless /\ TellsWhatItMay
=============================================================================

------------------------------ MODULE Channels ------------------------------
(***************************************************************************)
(* Notification channels: the requests that write them and what they are   *)
(* tied to (internal/api/channel_handlers.go, group_handlers.go), the rows *)
(* (sqlstore/incident.go, sqlstore/group.go), and the credential that a    *)
(* form never gets to see and an edit must not lose (notifier/edit.go).    *)
(* An edit reads the row, reads what it is to be tied to, then writes both *)
(* in one transaction.                                                     *)
(***************************************************************************)
EXTENDS Integers, FiniteSets

CONSTANTS
    None, Gone,
    Channels, Monitors, Groups, Clients,
    Bodies,     \* [kind, host, secret, plain, enabled] of the requests
    Ties,       \* sets of monitors and groups a request names, or None
    MaxRequests, MaxEdits

VARIABLES
    channel,    \* table notification_channel
    tied,       \* tables monitor_channel and group_channel
    place,      \* table monitor: the group of each
    over,       \* table monitor_group: the group over each
    request, requests, edits,
    given,      \* ghost: the credentials given for a destination of a channel
    secret,     \* ghost: the credential of each channel, by the requests
    answered,   \* ghost: the row the last request that worked was told
    crossed     \* ghost: two requests about the channel overlapped

vars == <<channel, tied, place, over, request, requests, edits, given, secret, answered,
          crossed>>

\* What a body says of the destination and of the credential.
Omitted == "omitted"
Masked == "masked"
Idle == [step |-> "idle"]
NoRow == [kind |-> None, host |-> None, secret |-> None, plain |-> FALSE, enabled |-> FALSE]
Refused == [NoRow EXCEPT !.kind = "refused"]
Stored(ch) == channel[ch] \notin {None, Gone}
There(t) == IF t \in Monitors THEN place[t] # Gone ELSE over[t] # Gone
-----------------------------------------------------------------------------
\* What a request says of the credential: on an edit, a header that comes back
\* as the form masked it says nothing.  Anywhere else a mask is a value.
Says(kind, b) ==
    b.secret # Omitted /\ ~ (b.secret = Masked /\ b.kind = "webhook" /\ kind = "update")

\* edicaoWebhook: a header with the mask takes the stored value, for the same
\* address only.
CarryWebhook(next, prev) ==
    LET host == IF next.host = Omitted THEN prev.host ELSE next.host
        kept == [next EXCEPT !.host = host, !.secret = prev.secret]
    IN IF next.secret # Masked
         THEN [kept EXCEPT !.secret = IF next.secret = Omitted THEN None ELSE next.secret]
       ELSE IF prev.secret = None \/ host # prev.host THEN Refused
       ELSE kept

\* edicaoEmail and edicaoNtfy: what was not sent is the stored one, for the
\* same server only; a mail server without encryption takes none.
CarryServer(next, prev) ==
    IF next.secret # Omitted THEN next
    ELSE IF prev.secret = None \/ (next.kind = "email" /\ next.plain)
           THEN [next EXCEPT !.secret = None]
    ELSE IF next.host # prev.host THEN Refused
    ELSE [next EXCEPT !.secret = prev.secret]

\* Mutant: what the form did not send is empty.
CarryNothing(next, prev) ==
    IF next.secret \in {Omitted, Masked} THEN [next EXCEPT !.secret = None] ELSE next

\* Mutant: the stored credential follows the channel anywhere.
CarryAnywhere(next, prev) ==
    IF next.secret \in {Omitted, Masked} THEN [next EXCEPT !.secret = prev.secret] ELSE next

\* CarrySecrets: another kind keeps nothing.
Carry(next, prev) ==
    LET old == IF prev.kind = next.kind THEN prev ELSE NoRow
    IN IF next.kind = "webhook" THEN CarryWebhook(next, old) ELSE CarryServer(next, old)

\* Build: a destination, and no credential in the open.
Valid(row) ==
    /\ row.kind # "refused" /\ row.host \notin {None, Omitted}
    /\ row.secret # Omitted
    /\ row.plain => row.secret = None

\* On a request that makes a channel nothing is carried.
Fresh(b) == [b EXCEPT !.secret = IF @ = Omitted THEN None ELSE @]
-----------------------------------------------------------------------------
Init ==
    /\ channel \in [Channels -> {None} \cup {b \in Bodies : Valid(b)}]
    /\ tied = [ch \in Channels |-> {}]
    /\ over \in {o \in [Groups -> Groups \cup {None}] :
                   \A g \in Groups : o[g] # None => o[o[g]] = None}
    /\ place \in {p \in [Monitors -> Groups \cup {None}] :
                   \A m \in Monitors : p[m] # None => \A g \in Groups : over[g] # p[m]}
    /\ request = [c \in Clients |-> Idle] /\ requests = 0 /\ edits = 0
    /\ given = [ch \in Channels |->
                   IF Stored(ch) THEN {<<channel[ch].kind, channel[ch].host, channel[ch].secret>>}
                                 ELSE {}]
    /\ secret = [ch \in Channels |-> IF Stored(ch) THEN channel[ch].secret ELSE None]
    /\ answered = channel /\ crossed = [ch \in Channels |-> FALSE]

Goes(c, r) == request' = [request EXCEPT ![c] = r]
InCourse(ch) == {c \in Clients : request[c].step # "idle" /\ request[c].of = ch}
Begins(c, ch) ==
    /\ request[c].step = "idle" /\ requests < MaxRequests /\ requests' = requests + 1
    /\ crossed' = [crossed EXCEPT ![ch] = @ \/ InCourse(ch) # {}]
    /\ UNCHANGED <<channel, tied, place, over, edits, secret, answered>>

\* The credentials a request gives for a destination.
Gives(ch, says, row) ==
    given' = [given EXCEPT ![ch] = IF says THEN @ \cup {<<row.kind, row.host, row.secret>>} ELSE @]

\* handleCreateChannel.
Create(c, ch, b, ties) ==
    /\ channel[ch] = None /\ InCourse(ch) = {} /\ Valid(Fresh(b))
    /\ Begins(c, ch) /\ Gives(ch, Says("create", b), Fresh(b))
    /\ Goes(c, [step |-> "resolve", kind |-> "create", of |-> ch, body |-> b,
                row |-> Fresh(b), ties |-> IF ties = None THEN {} ELSE ties])

\* handleUpdateChannel: Get, then the credential, then the validation.
Update(c, ch, b, ties) ==
    LET row == Carry(b, channel[ch]) IN
    /\ Stored(ch) /\ Begins(c, ch)
    /\ IF Valid(row)
         THEN /\ Gives(ch, Says("update", b), row)
              /\ Goes(c, [step |-> IF ties = None THEN "write" ELSE "resolve", kind |-> "update",
                          of |-> ch, body |-> b, row |-> row, ties |-> ties])
         ELSE UNCHANGED <<given, request>>

\* handleSetChannelTargets looks for what the channel is to be tied to first.
Tie(c, ch, step, kind, ties) ==
    /\ Stored(ch) /\ Begins(c, ch) /\ UNCHANGED given
    /\ Goes(c, [step |-> step, kind |-> kind, of |-> ch, row |-> NoRow, ties |-> ties])
Targets(c, ch, ties) == Tie(c, ch, "resolve", "targets", ties)

\* handleLinkChannel and handleUnlinkChannel, and those of a group.
Link(c, ch, t, kind) == Tie(c, ch, "write", kind, {t})

\* resolveTargets: each has to be there.
Resolve(c) ==
    /\ request[c].step = "resolve"
    /\ Goes(c, IF \A t \in request[c].ties : There(t) THEN [request[c] EXCEPT !.step = "write"]
                                                      ELSE Idle)
    /\ UNCHANGED <<channel, tied, place, over, requests, edits, given, secret, answered, crossed>>

\* Mutant: the row is written, then what it is tied to is refused.
KeptHalf(works, before, after) == after

\* A transaction leaves what was there when any of it fails.
Kept(works, before, after) == IF works THEN after ELSE before

\* The credential of the channel once the request has worked.
SecretAfter(ch, r) ==
    IF Says(r.kind, r.body) THEN r.body.secret
    ELSE IF r.body.secret # Masked /\ \/ r.body.kind = "webhook"
                                      \/ r.body.kind = "email" /\ r.body.plain
                                      \/ r.kind = "create" \/ channel[ch].kind # r.body.kind
      THEN None
    ELSE secret[ch]

\* CreateWithTargets, UpdateWithTargets and Update.
WriteRow(c) ==
    LET r == request[c]
        ch == r.of
        works == /\ IF r.kind = "create" THEN channel[ch] = None ELSE Stored(ch)
                 /\ r.ties # None => \A t \in r.ties : There(t)
    IN
    /\ r.step = "write" /\ r.kind \in {"create", "update"} /\ Goes(c, Idle)
    /\ channel' = [channel EXCEPT ![ch] = IF Stored(ch) \/ r.kind = "create"
                                            THEN Kept(works, @, r.row) ELSE @]
    /\ tied' = [tied EXCEPT ![ch] = IF works /\ r.ties # None THEN r.ties ELSE @]
    /\ secret' = [secret EXCEPT ![ch] = IF works THEN SecretAfter(ch, r) ELSE @]
    /\ answered' = [answered EXCEPT ![ch] = IF works THEN r.row ELSE @]
    /\ UNCHANGED <<place, over, requests, edits, given, crossed>>

\* The rows of Link and LinkGroup, Unlink and UnlinkGroup, and SetTargets.
TiesAfter(r, ties) ==
    CASE r.kind = "unlink" -> ties \ r.ties
      [] r.kind = "link" -> ties \cup r.ties
      [] OTHER -> r.ties

\* SetTargets, Link and LinkGroup, Unlink and UnlinkGroup.
WriteTies(c) ==
    LET r == request[c]
        ch == r.of
        works == Stored(ch) /\ \A t \in r.ties : There(t)
    IN
    /\ r.step = "write" /\ r.kind \in {"targets", "link", "unlink"} /\ Goes(c, Idle)
    /\ tied' = [tied EXCEPT ![ch] = IF works \/ r.kind = "unlink" THEN TiesAfter(r, @) ELSE @]
    /\ UNCHANGED <<channel, place, over, requests, edits, given, secret, answered, crossed>>

Edit == edits < MaxEdits /\ edits' = edits + 1

Delete(ch) ==
    /\ Edit /\ Stored(ch)
    /\ channel' = [channel EXCEPT ![ch] = Gone] /\ tied' = [tied EXCEPT ![ch] = {}]
    /\ answered' = [answered EXCEPT ![ch] = Gone]
    /\ UNCHANGED <<place, over, request, requests, given, secret, crossed>>

\* A monitor goes, or a group nothing is in, with the rows that name it.
Loses(t) == tied' = [ch \in Channels |-> tied[ch] \ {t}]
DeleteMonitor(m) ==
    /\ Edit /\ place[m] # Gone /\ place' = [place EXCEPT ![m] = Gone] /\ Loses(m)
    /\ UNCHANGED <<channel, over, request, requests, given, secret, answered, crossed>>
DeleteGroup(g) ==
    /\ Edit /\ over[g] # Gone
    /\ \A m \in Monitors : place[m] # g
    /\ \A x \in Groups : over[x] # g
    /\ over' = [over EXCEPT ![g] = Gone] /\ Loses(g)
    /\ UNCHANGED <<channel, place, request, requests, given, secret, answered, crossed>>

Next ==
    \/ \E c \in Clients, ch \in Channels, b \in Bodies, ties \in Ties \cup {None} :
          Create(c, ch, b, ties) \/ Update(c, ch, b, ties)
    \/ \E c \in Clients, ch \in Channels, ties \in Ties : Targets(c, ch, ties)
    \/ \E c \in Clients, ch \in Channels, t \in Monitors \cup Groups, k \in {"link", "unlink"} :
          Link(c, ch, t, k)
    \/ \E c \in Clients : Resolve(c) \/ WriteRow(c) \/ WriteTies(c)
    \/ \E ch \in Channels : Delete(ch)
    \/ \E m \in Monitors : DeleteMonitor(m)
    \/ \E g \in Groups : DeleteGroup(g)

Spec == Init /\ [][Next]_vars
-----------------------------------------------------------------------------
\* Destinations, one query when an alert is given out: the channels of the
\* monitor, of its group and of the group over that.
Destinations(m) ==
    {ch \in Channels : /\ Stored(ch) /\ channel[ch].enabled
                       /\ \/ m \in tied[ch]
                          \/ place[m] \in tied[ch] \cap Groups
                          \/ place[m] \in Groups /\ over[place[m]] \in tied[ch] \cap Groups}

\* Mutant: the list of an account with groups shows the channels of monitors.
ListForMonitors(reach) == {ch \in Channels : \E m \in tied[ch] \cap Monitors : place[m] \in reach}

\* ListFor, for an account that reaches some groups.
ListFor(reach) ==
    {ch \in Channels : \/ \E m \in tied[ch] \cap Monitors : place[m] \in reach
                       \/ tied[ch] \cap reach # {}}

\* NewAccess: a group granted brings those under it.
Reach(granted) == {g \in Groups : g \in granted \/ over[g] \in granted}

TypeOK ==
    /\ \A ch \in Channels : Stored(ch) => Valid(channel[ch])
    /\ \A ch \in Channels : tied[ch] \subseteq Monitors \cup Groups
    /\ place \in [Monitors -> Groups \cup {None, Gone}]
    /\ over \in [Groups -> Groups \cup {None, Gone}]
    /\ \A c \in Clients : request[c].step \in {"idle", "resolve", "write"}
    /\ requests \in 0..MaxRequests /\ edits \in 0..MaxEdits

\* A credential is used with the destination it was given for, whichever
\* requests overlapped (edit.go, CarrySecrets).
SecretsStayPut ==
    \A ch \in Channels : Stored(ch) /\ channel[ch].secret # None =>
        <<channel[ch].kind, channel[ch].host, channel[ch].secret>> \in given[ch]

\* An edit that says nothing of the credential keeps it, if no other request
\* about the channel overlapped it (handleUpdateChannel).
EditsKeepSecrets ==
    \A ch \in Channels : Stored(ch) /\ ~crossed[ch] => channel[ch].secret = secret[ch]

\* What a request was told is what is stored, whole, and what one was refused
\* left nothing behind (UpdateWithTargets).
AnsweredIsStored == \A ch \in Channels : channel[ch] = answered[ch]

\* No row ties a channel to what is gone, or what is gone to a channel.
TiesHold == \A ch \in Channels : tied[ch] # {} => Stored(ch) /\ \A t \in tied[ch] : There(t)

\* Who sees a monitor sees the channels that tell of it, but for those of a
\* group over all that the account reaches (access.go, visibleChannels).
DestinationsAreListed ==
    \A granted \in SUBSET Groups : \A m \in Monitors :
        place[m] \in Reach(granted) => \A ch \in Destinations(m) :
            \/ ch \in ListFor(Reach(granted))
            \/ over[place[m]] \in tied[ch] /\ over[place[m]] \notin Reach(granted)

ChannelsSound ==
    /\ SecretsStayPut /\ EditsKeepSecrets /\ AnsweredIsStored /\ TiesHold
    /\ DestinationsAreListed
=============================================================================

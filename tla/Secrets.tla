------------------------------ MODULE Secrets ------------------------------
(***************************************************************************)
(* The credentials of monitors at rest: the key an instance starts with,   *)
(* the sentinel that says which key the database is of, what the start     *)
(* seals, the change of key and the way out when the key is lost           *)
(* (sqlstore/secrets.go, secretbox, cmd/upwatch/secrets.go), and what an   *)
(* edit carries over (checker/secret.go).  A sealed value is the text with *)
(* the key that sealed it.  The transactions are atomic; an instance may   *)
(* crash between two of them, and while a key file is written.             *)
(***************************************************************************)
EXTENDS Integers, FiniteSets

CONSTANTS
    None, Rows, Pushers,        \* the rows of push monitors among Rows
    Instances, Keys, Generated, \* Generated: the key an instance would draw
    Texts, Targets, Levels,     \* credentials, addresses, how safe a connection is
    AutoFile,                   \* there is a place for a generated key: SQLite
    MaxStarts, MaxEdits

VARIABLES
    row,        \* table monitor: [target, level, value, push] or None
    check,      \* table secret_key_check: the key that sealed the sentinel
    file,       \* the file of the generated key: None, "torn" or the key
    proc, starts, edits,
    hand,       \* edits that were read and are still to be written
    given,      \* ghost: the credentials given, with their address and level
    past        \* ghost: "met" if a change or loss of key met a running instance,
                \* "older" if the version before wrote plain text

vars == <<row, check, file, proc, starts, edits, hand, given, past>>

Omitted == "omitted"
Down == [step |-> "down"]
There(r) == row[r] # None
Sealed(v) == v # None /\ v.key # None
Opens(box, v) == Sealed(v) => v.key \in box.keys

\* The text a row's column of push tokens holds, and whether it is its hash.
PushOf(r, text, hashed) ==
    IF r \in Pushers THEN [text |-> text, hashed |-> hashed] ELSE None
-----------------------------------------------------------------------------
Init ==
    /\ row = [r \in Rows |-> None] /\ check = None /\ file = None
    /\ proc = [i \in Instances |-> Down] /\ starts = 0 /\ edits = 0
    /\ hand = {} /\ given = {} /\ past = {}

Goes(i, p) == proc' = [proc EXCEPT ![i] = p]
Ups == {i \in Instances : proc[i].step = "up"}
SamePast == UNCHANGED <<starts, edits, hand, given>>

\* hasSealedSecrets.
HasSealed == check # None \/ \E r \in Rows : There(r) /\ Sealed(row[r].value)

\* Resolver.Box, up to the generation: the key configured, that of the file,
\* or one to be drawn.
ResolveKey(configured, sealed) ==
    CASE configured # None -> configured
      [] AutoFile /\ file # None -> file
      [] sealed \/ ~AutoFile -> "missing"
      [] OTHER -> "generate"

\* openStore: the instance looks at the database before it asks for a key.
Start(i, configured) ==
    /\ proc[i].step = "down" /\ starts < MaxStarts /\ starts' = starts + 1
    /\ Goes(i, [step |-> "key", configured |-> configured, sealed |-> HasSealed])
    /\ UNCHANGED <<row, check, file, edits, hand, given, past>>

\* rotateSecretKey: opens with the old key, and the new one reads as well.
StartRotation(i, old, new) ==
    /\ proc[i].step = "down" /\ starts < MaxStarts /\ starts' = starts + 1 /\ old # new
    /\ Goes(i, [step |-> "unlock", primary |-> old, keys |-> {old, new}, new |-> new])
    /\ UNCHANGED <<row, check, file, edits, hand, given, past>>

Serving(k) == [step |-> "unlock", primary |-> k, keys |-> {k}, new |-> None]

FindKey(i) ==
    LET k == ResolveKey(proc[i].configured, proc[i].sealed) IN
    /\ proc[i].step = "key"
    /\ \/ k \in Keys /\ Goes(i, Serving(k)) /\ UNCHANGED file
       \/ k \in {"torn", "missing"} /\ Goes(i, Down) /\ UNCHANGED file
       \/ /\ k = "generate"
          \* generate: the file is created in exclusive mode.
          /\ IF file = None THEN Goes(i, [step |-> "draw"]) /\ file' = "torn"
                            ELSE Goes(i, Down) /\ UNCHANGED file
    /\ UNCHANGED <<row, check, past>> /\ SamePast

\* The rest of generate, which may fail and take the file away.
DrawKey(i, works) ==
    /\ proc[i].step = "draw"
    /\ IF works THEN Goes(i, Serving(Generated)) /\ file' = Generated
                ELSE Goes(i, Down) /\ file' = None
    /\ UNCHANGED <<row, check, past>> /\ SamePast

\* Mutant: the sentinel is that of whoever comes.
TakesOver(box) == box.primary

\* verifyKey: the sentinel there, or the one the box would seal.
Verified(box) == IF check = None THEN box.primary ELSE check
KeyFits(box) == Verified(box) \in box.keys

\* Mutant: what the older version wrote is sealed, its tokens stay.
SealsOnly(box, r) ==
    IF ~There(r) \/ row[r].value = None THEN row[r]
    ELSE [row[r] EXCEPT !.value = IF Sealed(@) THEN @ ELSE [text |-> @.text, key |-> box.primary]]

\* sealAtRest: plain text is sealed, and a token in the column is hashed; the
\* column of a row that does not own its token stays empty.
AtRest(box, r) ==
    IF ~There(r) \/ row[r].value = None THEN row[r]
    ELSE [row[r] EXCEPT
            !.value = IF Sealed(@) THEN @ ELSE [text |-> @.text, key |-> box.primary],
            !.push = IF @ = None THEN None ELSE [text |-> row[r].value.text, hashed |-> TRUE]]

OpensAll(box) == \A r \in Rows : There(r) => Opens(box, row[r].value)

\* unlockSecrets, one transaction.
Unlock(i) ==
    LET box == proc[i] IN
    /\ box.step = "unlock"
    /\ IF KeyFits(box) /\ OpensAll(box)
         THEN /\ check' = Verified(box) /\ row' = [r \in Rows |-> AtRest(box, r)]
              /\ Goes(i, [box EXCEPT !.step = IF box.new = None THEN "up" ELSE "rotate"])
         ELSE UNCHANGED <<row, check>> /\ Goes(i, Down)
    /\ UNCHANGED <<file, past>> /\ SamePast

\* Mutant: what the old key sealed before stays.
ResealedLate(new) == row

\* The rows of RotateSecretKey, sealed again by the new key.
Resealed(new) ==
    [r \in Rows |-> IF There(r) /\ row[r].value # None
                      THEN [row[r] EXCEPT !.value.key = new] ELSE row[r]]

\* RotateSecretKey, one transaction; the command then ends.
Rotate(i) ==
    LET box == proc[i] IN
    /\ box.step = "rotate" /\ Goes(i, Down)
    /\ IF KeyFits(box) /\ OpensAll(box)
         THEN row' = Resealed(box.new) /\ check' = box.new
         ELSE UNCHANGED <<row, check>>
    /\ past' = IF \E j \in Instances \ {i} : proc[j].step # "down" THEN past \cup {"met"} ELSE past
    /\ UNCHANGED file /\ SamePast

\* ForgetSealed, with the column of a token that goes.
Forgotten(r) ==
    IF There(r) /\ Sealed(row[r].value) THEN [row[r] EXCEPT !.value = None, !.push = None]
                                        ELSE row[r]

\* ForgetSecrets, with every instance down or not.
Forget ==
    /\ edits < MaxEdits /\ edits' = edits + 1
    /\ row' = [r \in Rows |-> Forgotten(r)] /\ check' = None
    /\ past' = IF \E j \in Instances : proc[j].step # "down" THEN past \cup {"met"} ELSE past
    /\ UNCHANGED <<file, proc, starts, hand, given>>
-----------------------------------------------------------------------------
\* Mutant: the address alone is compared.
SameTarget(old, body) == body.target = old.target

\* CarrySecrets: a credential not sent is the stored one, for the same address
\* and no weaker a connection.  A push token is sent whole.
MayCarry(old, body) == body.target = old.target /\ body.level >= old.level
CarriedOver(r, body) ==
    IF body.text # Omitted THEN body.text
    ELSE IF ~There(r) \/ row[r].value = None THEN None
    ELSE IF MayCarry(row[r], body) THEN row[r].value.text
    ELSE "refused"

\* The hash of a token is in one row only.
Free(r, text) ==
    r \in Pushers => \A s \in Rows \ {r} :
        There(s) /\ row[s].push # None => row[s].push # [text |-> text, hashed |-> TRUE]

\* The row Create and Update write, through sealForWrite.
Written(h) ==
    [target |-> h.body.target, level |-> h.body.level, push |-> PushOf(h.row, h.text, TRUE),
     value |-> IF h.text = None THEN None ELSE [text |-> h.text, key |-> proc[h.by].primary]]

\* handleCreateMonitor and handleUpdateMonitor up to the write, as far as the
\* credential goes: the monitor is read, and one that does not open is not edited.
Edit(i, r, body) ==
    LET text == CarriedOver(r, body) IN
    /\ edits < MaxEdits /\ edits' = edits + 1 /\ i \in Ups
    /\ IF There(r) THEN Opens(proc[i], row[r].value) ELSE \A h \in hand : h.row # r
    /\ r \in Pushers => body.text # Omitted
    /\ text # "refused"
    /\ hand' = hand \cup {[by |-> i, row |-> r, body |-> body, text |-> text]}
    /\ given' = IF body.text = Omitted THEN given
                ELSE given \cup {<<body.text, body.target, body.level>>}
    /\ UNCHANGED <<row, check, file, proc, starts, past>>

\* Create and Update, whatever the row became since: the index of the tokens
\* may refuse it.
Save(h) ==
    /\ hand' = hand \ {h}
    /\ row' = IF Free(h.row, h.text) THEN [row EXCEPT ![h.row] = Written(h)] ELSE row
    /\ UNCHANGED <<check, file, proc, starts, edits, given, past>>

\* The process stops, or crashes wherever it is, with the edits it was at.
Stop(i) ==
    /\ proc[i].step # "down" /\ Goes(i, Down)
    /\ hand' = {h \in hand : h.by # i}
    /\ UNCHANGED <<row, check, file, starts, edits, given, past>>

\* Someone goes back to the version before: it writes plain text, token and
\* column, and its downward migration may drop the sentinel.
OlderVersion(r, text, drops) ==
    /\ edits < MaxEdits /\ edits' = edits + 1 /\ \A i \in Instances : proc[i].step = "down"
    /\ There(r)
    /\ \A s \in Rows \ {r} : There(s) /\ row[s].push # None => row[s].push.text # text
    /\ row' = [row EXCEPT ![r].value = [text |-> text, key |-> None],
                          ![r].push = PushOf(r, text, FALSE)]
    /\ given' = given \cup {<<text, row[r].target, row[r].level>>}
    /\ check' = IF drops THEN None ELSE check
    /\ past' = past \cup {"older"}
    /\ UNCHANGED <<file, proc, starts, hand>>

Bodies == [target : Targets, level : Levels, text : Texts \cup {Omitted}]

Next ==
    \/ \E i \in Instances, k \in Keys \cup {None} : Start(i, k)
    \/ \E i \in Instances, old \in Keys, new \in Keys : StartRotation(i, old, new)
    \/ \E i \in Instances : FindKey(i) \/ DrawKey(i, TRUE) \/ DrawKey(i, FALSE)
    \/ \E i \in Instances : Unlock(i) \/ Rotate(i) \/ Stop(i)
    \/ \E i \in Instances, r \in Rows, b \in Bodies : Edit(i, r, b)
    \/ \E h \in hand : Save(h)
    \/ \E r \in Rows, t \in Texts, drops \in BOOLEAN : OlderVersion(r, t, drops)
    \/ Forget

Spec == Init /\ [][Next]_vars
-----------------------------------------------------------------------------
TypeOK ==
    /\ \A r \in Rows : There(r) =>
          /\ row[r].target \in Targets /\ row[r].level \in Levels
          /\ row[r].value # None => row[r].value.key \in Keys \cup {None}
          /\ row[r].push # None => r \in Pushers
    /\ check \in Keys \cup {None} /\ file \in Keys \cup {None, "torn"}
    /\ \A i \in Instances : proc[i].step \in {"down", "key", "draw", "unlock", "rotate", "up"}
    /\ \A h \in hand : h.by \in Ups /\ h.row \in Rows /\ h.body \in Bodies
    /\ starts \in 0..MaxStarts /\ edits \in 0..MaxEdits /\ past \subseteq {"met", "older"}

\* A running instance opens every credential, whatever other instances start
\* with, unless the key was changed or given up under it (verifyKey).
RunningOpensAll ==
    "met" \notin past => \A i \in Ups : /\ OpensAll(proc[i])
                               /\ check \in proc[i].keys

\* While an instance runs no credential is in plain text and no token is in
\* its column but as a hash (sealAtRest).
NothingPlain ==
    Ups # {} => \A r \in Rows : There(r) =>
        /\ row[r].value # None => Sealed(row[r].value)
        /\ row[r].push # None => row[r].push.hashed

\* A token that finds a row is the token of that row (sealAtRest, Forget).
TokensFind ==
    Ups # {} => \A r \in Rows : There(r) /\ row[r].push # None =>
        row[r].value # None /\ row[r].push.text = row[r].value.text

\* A change of key takes everything along: what is sealed opens with the key of
\* the sentinel (RotateSecretKey).
OneKeyOpensAll ==
    past = {} /\ check # None => \A r \in Rows :
        There(r) /\ row[r].value # None => row[r].value.key = check

\* With plain text of an older version to seal, a change of key that stops half
\* way may leave two keys, which the command run again reads, and never a third.
TwoKeysOpenAll ==
    "met" \notin past => Cardinality({k \in Keys : k = check \/ \E r \in Rows :
                        There(r) /\ row[r].value # None /\ row[r].value.key = k}) <= 2

\* A credential is used with the address it was given for and with no weaker a
\* connection (checker/secret.go, CarrySecrets).
UsedAsGiven ==
    \A r \in Rows : There(r) /\ row[r].value # None =>
        \E l \in Levels : <<row[r].value.text, row[r].target, l>> \in given /\ l <= row[r].level

SecretsSound ==
    /\ RunningOpensAll /\ NothingPlain /\ TokensFind /\ OneKeyOpensAll /\ TwoKeysOpenAll
    /\ UsedAsGiven
=============================================================================

----------------------------- MODULE ConsentLife -----------------------------
(***************************************************************************)
(* What the bank connection promises, without requests, references or       *)
(* metadata: the life of one connection, from its pending row to its         *)
(* removal, and of the consents the bank grants for it.  A granted consent   *)
(* is in hand until it is put in place, at most once; a connection expires    *)
(* only by a refusal of its own consent, lets a consent go only when that has *)
(* ended, and is removed only without the owner's movements.                 *)
(***************************************************************************)
EXTENDS FiniteSets

CONSTANTS Attempts, None

VARIABLES
    status, consent,          \* the connection and the consent in place
    test, movements,          \* made for a test; has movements
    granted, ended, refused,  \* consents, as the bank tells the server
    inHand                    \* granted, and not put in place yet

connection == <<status, consent, test, movements>>
bank       == <<granted, ended, refused>>
life       == <<connection, bank, inHand>>

Held == status \in {"pending_consent", "active", "expired", "revoked"}

Init ==
    /\ status = "absent" /\ consent = None /\ test = FALSE /\ movements = FALSE
    /\ granted = {} /\ ended = {} /\ refused = {} /\ inHand = {}

Start(isTest) ==
    /\ status = "absent" /\ status' = "pending_consent" /\ test' = isTest
    /\ UNCHANGED <<consent, movements, bank, inHand>>

\* The bank grants each consent once.
Grant(a) ==
    /\ a \notin granted
    /\ granted' = granted \cup {a} /\ inHand' = inHand \cup {a}
    /\ UNCHANGED <<connection, ended, refused>>

\* A request stopped, or the connection was gone: the consent is never used.
Drop(a) ==
    /\ a \in inHand /\ inHand' = inHand \ {a}
    /\ UNCHANGED <<connection, bank>>

\* The bank may have given no id to keep for it.
Place(a) ==
    /\ Held /\ a \in inHand
    /\ status' = "active" /\ consent' \in {a, None}
    /\ inHand' = inHand \ {a}
    /\ UNCHANGED <<test, movements, bank>>

End(a) ==
    /\ a \in granted /\ ended' = ended \cup {a}
    /\ UNCHANGED <<connection, granted, refused, inHand>>

Refuse(a) ==
    /\ a \in granted \cup {None} /\ refused' = refused \cup {a}
    /\ UNCHANGED <<connection, granted, ended, inHand>>

Expire ==
    /\ status = "active" /\ consent \in refused /\ status' = "expired"
    /\ UNCHANGED <<consent, test, movements, bank, inHand>>

Disconnect ==
    /\ Held /\ status # "pending_consent" /\ status' = "revoked"
    /\ UNCHANGED <<consent, test, movements, bank, inHand>>

LetGo ==
    /\ status = "revoked" /\ consent \in ended /\ consent' = None
    /\ UNCHANGED <<status, test, movements, bank, inHand>>

Land ==
    /\ Held /\ movements' = TRUE
    /\ UNCHANGED <<status, consent, test, bank, inHand>>

Remove ==
    /\ Held /\ (movements => test)
    /\ status' = "removed" /\ consent' = None /\ test' = FALSE /\ movements' = FALSE
    /\ UNCHANGED <<bank, inHand>>

Next ==
    \/ \E isTest \in BOOLEAN : Start(isTest)
    \/ \E a \in Attempts : Grant(a) \/ Drop(a) \/ Place(a) \/ End(a)
    \/ \E a \in Attempts \cup {None} : Refuse(a)
    \/ Expire \/ Disconnect \/ LetGo \/ Land \/ Remove

Spec == Init /\ [][Next]_life

\* A consent that has been put in place, or was dropped, is never put in place
\* again: once it has been replaced or let go, it stays out.
PlacedOnce ==
    [][\A a \in granted \ inHand : a \notin inHand' /\ (consent # a => consent' # a)]_life
=============================================================================

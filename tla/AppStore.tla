------------------------------ MODULE AppStore ------------------------------
(***************************************************************************)
(* What the volume promises about one app, with no flash and no failures   *)
(* in it: a package, its private bytes and its named file change together  *)
(* and at once; before every change the state is kept for recovery; during *)
(* a pending upgrade the state kept is the one from before the upgrade,    *)
(* and accepting or rolling back ends it.  The highest version that was    *)
(* ever an upgrade is never undercut by another upgrade.                   *)
(* docs/NATIVE-APP-DOCUMENT-TRANSACTIONS.md, "Upgrade and document layer". *)
(***************************************************************************)
EXTENDS Naturals, Sequences

CONSTANTS Version, Payload, MaxChunks, None

VARIABLES
  current,    \* package, private bytes and named file; None: not installed
  previous,   \* what a recovery returns to; None when nothing is kept
  versioned,  \* has the app been converted to documents?
  upgrade,    \* is an upgrade pending?
  high        \* the highest version accepted for installation

vars == <<current, previous, versioned, upgrade, high>>

State(pkg, priv, file) == [pkg |-> pkg, priv |-> priv, file |-> file]
Files == UNION {[1..n -> Payload] : n \in 0..MaxChunks}
Installed == [pkg : Version, priv : Payload, file : Files]

(* Nothing is installed, or one app without a recovery state. *)
Init == /\ previous = None /\ upgrade = FALSE
        /\ \/ current = None /\ versioned = FALSE /\ high = 0
           \/ /\ current \in Installed /\ versioned = TRUE
              /\ high \in Version /\ high >= current.pkg

Install(pkg, data) ==
  /\ ~versioned
  /\ current' = State(pkg, data, <<>>)
  /\ UNCHANGED <<previous, versioned, upgrade, high>>

Convert(data) ==
  /\ ~versioned /\ current # None
  /\ current' = [current EXCEPT !.priv = data]
  /\ versioned' = TRUE
  /\ high' = current.pkg
  /\ UNCHANGED <<previous, upgrade>>

(* The app saves: its private bytes, or its named file. *)
Keep == previous' = IF upgrade THEN previous ELSE current

Save(state) == /\ current' = state
               /\ Keep
               /\ UNCHANGED <<versioned, upgrade, high>>

SaveAndAccept(state) == /\ upgrade
                        /\ current' = state
                        /\ previous' = None
                        /\ upgrade' = FALSE
                        /\ UNCHANGED <<versioned, high>>

Upgrade(pkg) == /\ versioned /\ ~upgrade
                /\ pkg > high
                /\ current' = [current EXCEPT !.pkg = pkg]
                /\ previous' = current
                /\ upgrade' = TRUE
                /\ high' = pkg
                /\ UNCHANGED versioned

Resolve(state) == /\ upgrade
                  /\ current' = state
                  /\ previous' = None
                  /\ upgrade' = FALSE
                  /\ UNCHANGED <<versioned, high>>

(* The highest version the installed state forbids to undercut. *)
Floor == IF versioned THEN high ELSE IF current = None THEN 0 ELSE current.pkg

(* An archive replaces the whole app at once: it never brings an older      *)
(* package than the highest accepted one, unless it is the installed one;   *)
(* with a recovery pair in it, it restores a pending upgrade.               *)
Restore ==
  /\ versioned' = TRUE
  /\ current' # None
  /\ current = None \/ current'.pkg = current.pkg \/ current'.pkg > Floor
  /\ previous' # None => previous'.pkg < current'.pkg
  /\ upgrade' = (previous' # None)
  /\ high' >= current'.pkg /\ high' >= Floor
  /\ current' \in Installed
  /\ previous' \in Installed \cup {None}
  /\ high' \in Version

Remove == /\ current # None
          /\ current' = None /\ previous' = None
          /\ versioned' = FALSE /\ upgrade' = FALSE /\ high' = 0

Next == \/ \E pkg \in Version, data \in Payload : Install(pkg, data)
        \/ \E data \in Payload : Convert(data)
        \/ /\ versioned
           /\ \/ \E data \in Payload : \/ Save([current EXCEPT !.priv = data])
                                       \/ SaveAndAccept([current EXCEPT !.priv = data])
              \/ \E f \in Files : Save([current EXCEPT !.file = f])
        \/ \E pkg \in Version : Upgrade(pkg)
        \/ Resolve(current) \/ Resolve(previous)
        \/ Restore
        \/ Remove

Spec == Init /\ [][Next]_vars
=============================================================================

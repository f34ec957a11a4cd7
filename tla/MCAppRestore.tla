---------------------------- MODULE MCAppRestore ----------------------------
(* Small instances of AppRestore for TLC: an archive of an app without      *)
(* history, and one with an upgrade pending over a pair with the same bytes *)
(* - written over an empty volume, a combined file, a document or its own   *)
(* leftovers.                                                               *)
EXTENDS AppRestore

Archived(pkg) == [pkg |-> pkg, priv |-> 1, file |-> <<1>>]

Archives == {[pairs |-> <<Archived(1)>>, high |-> 1],
             [pairs |-> <<Archived(2), Archived(1)>>, high |-> 2]}

(* An app as a first restore leaves it, without a named file. *)
FirstRestored ==
  Root("doc", 1, FALSE, 1,
       Pair(1, 1, 1, Index(<<Extent(Chunk(1, 1), 1)>>, <<>>)), NoPair)

StartWith(installed) ==
  /\ root = installed
  /\ dir = (installed # NoRoot)
  /\ objects = [n \in Name |->
       IF \E need \in NeedsOf(installed) : need.obj = n
         THEN (CHOOSE need \in NeedsOf(installed) : need.obj = n).content
         ELSE Absent]
  /\ pending = NoRoot
  /\ faults = 0
  /\ phase = "idle" /\ job = NoJob /\ scan = {}
  /\ readers = NoReaders
  /\ vol = "off" /\ user = "none" /\ file = NoFile /\ plain = NoPlain
  /\ restore = NoRestore /\ restores = 0

(* Before the volume is initialized the calculator holds nothing, or an app *)
(* that was restored earlier: fewer generations lead to a pair to replace.  *)
MCInit == RestoreInit \/ StartWith(FirstRestored)

MCSpec == MCInit /\ [][RestoreNext]_restoreVars
=============================================================================

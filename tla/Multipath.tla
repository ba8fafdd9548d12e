----------------------------- MODULE Multipath -----------------------------
(***************************************************************************)
(* The multipath configurator of vdsm-tool                                 *)
(* (src/lib/vdsm/tool/configurators/multipath.py): isconfigured() reads   *)
(* the first two lines of /etc/multipath.conf for vdsm's revision tag and *)
(* the private tag; configure() backs the file up under a name stamped    *)
(* to the minute, copies vdsm's configuration over it, flushes the unused *)
(* maps and reloads multipathd.                                            *)
(*                                                                         *)
(* The file is Absent or a record: what its first line carries, what its  *)
(* second line carries ("" also for a one-line file, where the code       *)
(* catches the IndexError), and an id telling contents apart.  The admin  *)
(* may rewrite or remove the file and the clock may advance between tool  *)
(* runs.                                                                  *)
(***************************************************************************)
EXTENDS Naturals, TLC

CONSTANTS
    AdminContents,  \* files an admin may write
    MaxClock        \* last minute of the run

Absent == [absent |-> TRUE]

(* _CONF_DATA: _CURRENT_TAG on its first line, an empty second line. *)
ConfData == [first |-> "current", second |-> "", id |-> "vdsm"]

VARIABLES
    conf,       \* /etc/multipath.conf
    backups,    \* backup files: minute stamp -> content
    clock,      \* the current minute
    verdict,    \* the last isconfigured() answer, "none" after a change
    result,     \* how the last configure() ended
    replaced    \* auxiliary: contents configure() copied over

vars == <<conf, backups, clock, verdict, result, replaced>>

TypeOK ==
    /\ conf \in AdminContents \cup {Absent, ConfData}
    /\ clock \in 0..MaxClock
    /\ verdict \in {"none", "YES", "NO"}
    /\ result \in {"none", "ok", "RuntimeError", "ServiceOperationError"}
-----------------------------------------------------------------------------
(* isconfigured(): a private tag on line 2 (either spelling) preserves the *)
(* file, with a warning when line 1 is not the current revision; the      *)
(* current tag on line 1 preserves it; an old tag or anything else asks    *)
(* for configuration.                                                      *)
IsConfiguredOf(c) ==
    IF c = Absent THEN "NO"
    ELSE IF c.second \in {"private", "oldprivate"} THEN "YES"
    ELSE IF c.first = "current" THEN "YES"
    ELSE "NO"

(* The backup step: shutil.copyfile to _CONF_FILE + '.' + minute stamp,  *)
(* which replaces a backup taken in the same minute.                      *)
Backup(c) ==
    IF c = Absent THEN backups
    ELSE [m \in DOMAIN backups \cup {clock} |-> IF m = clock THEN c ELSE backups[m]]

Init ==
    /\ conf \in AdminContents \cup {Absent}
    /\ backups = [m \in {} |-> Absent]
    /\ clock = 0
    /\ verdict = "none"
    /\ result = "none"
    /\ replaced = {}

IsConfigured ==
    /\ verdict' = IsConfiguredOf(conf)
    /\ UNCHANGED <<conf, backups, clock, result, replaced>>

(* configure(), as the tool runs it after isconfigured() said NO: back up, *)
(* cp the temporary file over the conf (a failing cp raises RuntimeError), *)
(* multipath -F, then reload multipathd; a failed reload is re-raised only *)
(* if multipathd is running.                                               *)
Configure ==
    /\ verdict = "NO"
    /\ \E cpOk, reloadOk, running \in BOOLEAN :
         /\ backups' = Backup(conf)
         /\ conf' = IF cpOk THEN ConfData ELSE conf
         /\ replaced' = IF cpOk /\ conf # Absent THEN replaced \cup {conf} ELSE replaced
         /\ result' = CASE ~cpOk -> "RuntimeError"
                        [] ~reloadOk /\ running -> "ServiceOperationError"
                        [] OTHER -> "ok"
    /\ verdict' = "none"
    /\ UNCHANGED clock

(* The admin edits or removes the file. *)
AdminWrite(c) ==
    /\ conf' = c
    /\ verdict' = "none"
    /\ UNCHANGED <<backups, clock, result, replaced>>

AdminRemove ==
    /\ conf # Absent
    /\ conf' = Absent
    /\ verdict' = "none"
    /\ UNCHANGED <<backups, clock, result, replaced>>

Tick ==
    /\ clock < MaxClock
    /\ clock' = clock + 1
    /\ UNCHANGED <<conf, backups, verdict, result, replaced>>

Next ==
    \/ IsConfigured \/ Configure \/ AdminRemove \/ Tick
    \/ \E c \in AdminContents : AdminWrite(c)

Spec == Init /\ [][Next]_vars
-----------------------------------------------------------------------------
(* configure()'s docstring: "The original configuration, if any, is       *)
(* saved": every file configure() copied over is kept in some backup.      *)
OriginalSaved ==
    \A c \in replaced : \E m \in DOMAIN backups : backups[m] = c

=============================================================================

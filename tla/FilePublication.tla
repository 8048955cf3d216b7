--------------------------- MODULE FilePublication ---------------------------
(***************************************************************************)
(* write_new (foresee/evidence_files.py): a command publishes a file by    *)
(* writing a temporary one, syncing it, linking it to its destination and  *)
(* removing the temporary name.  The destination is never replaced, and a  *)
(* file that has a second name is not accepted as a private key.           *)
(*                                                                         *)
(* Actions for a module that composes publications with their commands;    *)
(* each leaves the command's own state to that module.  Links and data are *)
(* what the file system knows: data not yet synced is torn by a loss of    *)
(* power, and an entry that was not made durable may be gone after it.     *)
(* mkstemp never gives two commands one name.                              *)
(***************************************************************************)
CONSTANTS
    None,
    Commands,
    Paths,
    Torn             \* what is left of data that was not synced

VARIABLES
    files,   \* the entries: a path, its data, the command that published it or None
    temp,    \* each command's temporary file, None while it has none
    synced   \* its data is on the disk

disk == <<files, temp, synced>>

(* A second name: the temporary one is not yet removed.                    *)
HasTwoNames(f) == f.by # None /\ temp[f.by] # None

-----------------------------------------------------------------------------
Create(c, data) ==
    /\ temp[c] = None
    /\ temp' = [temp EXCEPT ![c] = data]
    /\ UNCHANGED <<files, synced>>

(* fsync.  (Mutant: left out.)                                             *)
NotFlushed == FALSE
Flushed == TRUE

Sync(c) ==
    /\ synced' = [synced EXCEPT ![c] = Flushed]
    /\ UNCHANGED <<files, temp>>

(* link fails if the destination exists.  (Mutant: rename, which does not.)*)
AnyPlace(p) == TRUE
Free(p) == \A f \in files : f.path # p

Link(c, p) ==
    /\ Free(p)
    /\ files' = {f \in files : f.path # p} \cup {[path |-> p, data |-> temp[c], by |-> c]}
    /\ UNCHANGED <<temp, synced>>

Unlink(c) ==
    /\ temp' = [temp EXCEPT ![c] = None]
    /\ UNCHANGED <<files, synced>>

-----------------------------------------------------------------------------
(* Everything that runs ends with the power; what was synced is whole.     *)
AfterPowerLoss(f) ==
    [path |-> f.path, by |-> f.by,
     data |-> IF f.by = None \/ synced[f.by] THEN f.data ELSE Torn]

LosePower ==
    /\ \E gone \in SUBSET {f \in files : f.by # None} :
          files' = {AfterPowerLoss(f) : f \in files \ gone}
    /\ temp' = [c \in Commands |-> IF temp[c] # None /\ ~synced[c] THEN Torn ELSE temp[c]]
    /\ UNCHANGED synced

(* Somebody else removes what is at a path, or puts a file there.          *)
Without(p) == {f \in files : f.path # p}
Remove(p) ==
    /\ files' = Without(p)
    /\ UNCHANGED <<temp, synced>>

Put(p, data) ==
    /\ files' = Without(p) \cup {[path |-> p, data |-> data, by |-> None]}
    /\ UNCHANGED <<temp, synced>>
=============================================================================

----------------------------- MODULE MachineDoc -----------------------------
(***************************************************************************)
(* get_or_create_machine_doc (vendimint/src/vendimint_iroh/machine.rs):    *)
(* the ticket file that names the document a machine shares with its       *)
(* manager, and the check-then-act sequence by which any number of tasks   *)
(* open that document or create it.                                        *)
(*                                                                         *)
(* The function takes no lock.  tokio::fs::write truncates the file and    *)
(* then fills it, so a reader may find it empty; an empty or unparsable    *)
(* file is read as "no document" (`.ok()`), which is why one value, NoDoc, *)
(* stands for an absent, an empty and a torn file.                         *)
(***************************************************************************)
EXTENDS Naturals

CONSTANTS
    Callers,   \* the tasks that may be inside get_or_create_machine_doc
    MaxDocs    \* bound: documents created in a behaviour

VARIABLES
    docFile,   \* document named by machine_doc_ticket.json, or NoDoc
    docsMade,  \* documents created so far; the next one is docsMade + 1
    dpc,       \* where each caller is inside the function
    got        \* the document a caller opened or created

NoDoc == 0
DocIds == 1..MaxDocs

DocSteps == {"idle", "read", "save", "write", "done"}

DocTypeOK ==
    /\ docFile \in DocIds \cup {NoDoc}
    /\ docsMade \in 0..MaxDocs
    /\ dpc \in [Callers -> DocSteps]
    /\ got \in [Callers -> DocIds \cup {NoDoc}]

DocInit ==
    /\ docFile = NoDoc
    /\ docsMade = 0
    /\ dpc = [x \in Callers |-> "idle"]
    /\ got = [x \in Callers |-> NoDoc]

(***************************************************************************)
(* Entering the function, and leaving it with the document or an error.    *)
(***************************************************************************)
DocCall(x) ==
    /\ dpc[x] = "idle"
    /\ dpc' = [dpc EXCEPT ![x] = "read"]
    /\ UNCHANGED <<docFile, docsMade, got>>

DocLeave(x) ==
    /\ dpc' = [dpc EXCEPT ![x] = "idle"]
    /\ got' = [got EXCEPT ![x] = NoDoc]
    /\ UNCHANGED <<docFile, docsMade>>

DocReturn(x) == dpc[x] = "done" /\ DocLeave(x)

\* docs.create, share or a file operation returns an error.
DocFail(x) == dpc[x] \in {"read", "save", "write"} /\ DocLeave(x)

\* Mutant of DocOpen: an existing ticket is replaced by a new document.
DocOpenAnew(x) ==
    /\ dpc[x] = "read"
    /\ docFile # NoDoc
    /\ docsMade < MaxDocs
    /\ docsMade' = docsMade + 1
    /\ got' = [got EXCEPT ![x] = docsMade + 1]
    /\ docFile' = docsMade + 1
    /\ dpc' = [dpc EXCEPT ![x] = "done"]

\* The file names a document: open it.
DocOpen(x) ==
    /\ dpc[x] = "read"
    /\ docFile # NoDoc
    /\ got' = [got EXCEPT ![x] = docFile]
    /\ dpc' = [dpc EXCEPT ![x] = "done"]
    /\ UNCHANGED <<docFile, docsMade>>

\* The file is missing or unreadable: create a fresh document.
DocCreate(x) ==
    /\ dpc[x] = "read"
    /\ docFile = NoDoc
    /\ docsMade < MaxDocs
    /\ docsMade' = docsMade + 1
    /\ got' = [got EXCEPT ![x] = docsMade + 1]
    /\ dpc' = [dpc EXCEPT ![x] = "save"]
    /\ UNCHANGED docFile

\* The two halves of tokio::fs::write.
DocTruncate(x) ==
    /\ dpc[x] = "save"
    /\ docFile' = NoDoc
    /\ dpc' = [dpc EXCEPT ![x] = "write"]
    /\ UNCHANGED <<docsMade, got>>

DocWrite(x) ==
    /\ dpc[x] = "write"
    /\ docFile' = got[x]
    /\ dpc' = [dpc EXCEPT ![x] = "done"]
    /\ UNCHANGED <<docsMade, got>>

DocStep(x) ==
    \/ DocOpen(x)
    \/ DocCreate(x)
    \/ DocTruncate(x)
    \/ DocWrite(x)

(***************************************************************************)
(* Losing every caller at once.  A crash stops the writes where they are.  *)
(* An abort drops the futures, but a write already handed to the blocking  *)
(* pool runs to its end; with several, any of them may be the last.        *)
(***************************************************************************)
DocAllIdle ==
    /\ dpc' = [x \in Callers |-> "idle"]
    /\ got' = [x \in Callers |-> NoDoc]
    /\ UNCHANGED docsMade

DocCrash == DocAllIdle /\ UNCHANGED docFile

DocWriters == {x \in Callers : dpc[x] = "write"}

DocAbort ==
    /\ DocAllIdle
    /\ IF DocWriters = {}
         THEN UNCHANGED docFile
         ELSE \E x \in DocWriters : docFile' = got[x]
=============================================================================

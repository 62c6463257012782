------------------------------- MODULE Founder -------------------------------
(***************************************************************************)
(* What comes in from a founder: the messages of the conversation (this    *)
(* module extends it), and the files that are imported.  The two share no  *)
(* state here (Ledger has the books both write to), so a behaviour is a    *)
(* behaviour of one of them.                                               *)
(***************************************************************************)
EXTENDS Conversation

CONSTANTS Files, unreadable, silent, MaxUploads  \* of Imports

VARIABLES parties, invoices, payments, products, uploads, raced,
          part  \* what comes in

Import == INSTANCE Imports

ASSUME FilesAreFiles == Import!FilesAssumption

files == <<parties, invoices, payments, products, uploads, raced>>
allVars == <<vars, files, part>>

FounderInit == Init /\ Import!Init /\ part \in {"messages", "files"}

FounderNext == /\ UNCHANGED part
               /\ \/ part = "messages" /\ Next /\ UNCHANGED files
                  \/ part = "files" /\ Import!Next /\ UNCHANGED vars

(* The fairness of Conversation, and of Imports: an upload that can go on  *)
(* does.                                                                   *)
FounderSpec == /\ FounderInit /\ [][FounderNext]_allVars
               /\ Answering
               /\ WF_files(Import!Moves)

-----------------------------------------------------------------------------
(* Types of the variables of both. *)
AllTypesOK == TypeOK /\ Import!TypeOK /\ part \in {"messages", "files"}

(* A file that went through adds nothing when it comes again               *)
(* (importer/engine, importer/payment_row).                                *)
ReuploadAddsNothing == Import!ReuploadAddsNothing

(* A row of a file is in the books once, and whole or not at all           *)
(* (importer/engine, importer/parties, importer/payment_row).              *)
EveryRowOnceAndWhole == Import!EveryRowOnceAndWhole

(* No upload waits for ever for another one's rows (importer/engine). *)
EveryUploadEnds == Import!EveryUploadEnds

=============================================================================

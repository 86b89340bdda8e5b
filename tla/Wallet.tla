-------------------------------- MODULE Wallet --------------------------------
(***************************************************************************)
(* _extract_wallet() of core/connection_manager.py: the wallet of a        *)
(* connection is a zip, which is extracted to a directory of its own and   *)
(* again when the zip is newer than the marker .extracted_mtime there.     *)
(* Instances of the application share the directory; the user may replace  *)
(* the zip at any time; an extraction may be cut anywhere.                 *)
(*                                                                         *)
(* A file is the version of the zip it was extracted from.  The date of a  *)
(* zip says nothing of its version: a copy may keep an old one, and it may *)
(* come from the clock of another system.  Nor is the clock of the markers *)
(* taken to go forward.                                                    *)
(***************************************************************************)
EXTENDS Naturals

CONSTANTS
  Process,     \* the instances of the application
  Member,      \* the files in the zip
  Nothing,     \* no file, or marker
  Torn,        \* a file that was cut
  DateMax,     \* bound: the dates a file may have
  ReplaceMax,  \* bound: the times the zip is replaced
  ExtractMax,  \* bound: the extractions begun
  CutMax       \* bound: the extractions cut

ASSUME WalletAssumption ==
  /\ Nothing \notin Nat /\ Torn \notin Nat
  /\ DateMax \in Nat /\ ReplaceMax \in Nat /\ ExtractMax \in Nat /\ CutMax \in Nat

VARIABLES
  version,   \* the version of the zip, the number of its replacements
  zip,       \* its modification time
  dir,       \* the wallet directory exists
  content,   \* content[m]: the version of the file m in it
  marker,    \* the modification time of .extracted_mtime
  stage,     \* stage[p]: "idle", "check", "extract", "returned"
  source,    \* source[p]: the version p has open
  todo,      \* todo[p]: the files p has yet to write
  extractions, cuts,
  overlooked, \* history: the zip was last replaced, since the marker, by one
              \* that is not dated after it
  raced      \* history: the zip was replaced, or another instance came to
             \* _extract_wallet(), while an extraction was under way

walletVars == <<version, zip, dir, content, marker, stage, source, todo,
                extractions, cuts, overlooked, raced>>

Date == 0..DateMax

ZipVersion == 0..ReplaceMax

WalletTypeOK ==
  /\ version \in ZipVersion
  /\ zip \in Date
  /\ dir \in BOOLEAN
  /\ content \in [Member -> ZipVersion \cup {Nothing, Torn}]
  /\ marker \in Date \cup {Nothing}
  /\ stage \in [Process -> {"idle", "check", "extract", "returned"}]
  /\ source \in [Process -> ZipVersion]
  /\ todo \in [Process -> SUBSET Member]
  /\ extractions \in 0..ExtractMax
  /\ cuts \in 0..CutMax
  /\ overlooked \in BOOLEAN
  /\ raced \in BOOLEAN

WalletInit ==
  /\ version = 0
  /\ zip \in Date
  /\ dir = FALSE
  /\ content = [m \in Member |-> Nothing]
  /\ marker = Nothing
  /\ stage = [p \in Process |-> "idle"]
  /\ source = [p \in Process |-> 0]
  /\ todo = [p \in Process |-> {}]
  /\ extractions = 0
  /\ cuts = 0
  /\ overlooked = FALSE
  /\ raced = FALSE

Extracting == \E p \in Process : stage[p] = "extract"

\* The user puts another zip, of any date, in the place of the old one.
Replace ==
  /\ version < ReplaceMax
  /\ version' = version + 1
  /\ zip' \in Date
  /\ overlooked' = (marker # Nothing /\ zip' <= marker)
  /\ raced' = (raced \/ Extracting)
  /\ UNCHANGED <<dir, content, marker, stage, source, todo, extractions, cuts>>

\* connect() of a connection with a wallet comes to _extract_wallet().
ComesToExtract(p) ==
  /\ stage[p] \in {"idle", "returned"}
  /\ extractions < ExtractMax
  /\ extractions' = extractions + 1
  /\ stage' = [stage EXCEPT ![p] = "check"]
  /\ raced' = (raced \/ Extracting)
  /\ UNCHANGED <<version, zip, dir, content, marker, source, todo, cuts,
                 overlooked>>

\* Mutant: a directory that exists counts as extracted.
DirectoryIsEnough == ~dir

\* "Re-extract if directory missing or zip is newer", or without a marker.
MustExtract ==
  \/ ~dir
  \/ marker = Nothing
  \/ zip > marker

Check(p) ==
  /\ stage[p] = "check"
  /\ IF MustExtract
       THEN /\ stage' = [stage EXCEPT ![p] = "extract"]
            /\ dir' = TRUE
            /\ source' = [source EXCEPT ![p] = version]
            /\ todo' = [todo EXCEPT ![p] = Member]
       ELSE /\ stage' = [stage EXCEPT ![p] = "returned"]
            /\ UNCHANGED <<dir, source, todo>>
  /\ raced' = (raced \/ (MustExtract /\ Extracting))
  /\ UNCHANGED <<version, zip, content, marker, extractions, cuts, overlooked>>

\* extractall() writes the next file.
Extract(p) ==
  /\ stage[p] = "extract"
  /\ \E m \in todo[p] :
       /\ content' = [content EXCEPT ![m] = source[p]]
       /\ todo' = [todo EXCEPT ![p] = @ \ {m}]
  /\ UNCHANGED <<version, zip, dir, marker, stage, source, extractions, cuts,
                 overlooked, raced>>

AllExtracted(p) == todo[p] = {}

\* touch() of the marker, and the return.
Touch(p) ==
  /\ stage[p] = "extract"
  /\ AllExtracted(p)
  /\ marker' \in Date
  /\ overlooked' = FALSE
  /\ stage' = [stage EXCEPT ![p] = "returned"]
  /\ UNCHANGED <<version, zip, dir, content, source, todo, extractions, cuts,
                 raced>>

\* p is killed, or the zip is broken, or the disk is full, maybe in a file.
Cut(p) ==
  /\ stage[p] = "extract"
  /\ cuts < CutMax
  /\ cuts' = cuts + 1
  /\ stage' = [stage EXCEPT ![p] = "idle"]
  /\ todo' = [todo EXCEPT ![p] = {}]
  /\ \/ UNCHANGED content
     \/ \E m \in todo[p] : content' = [content EXCEPT ![m] = Torn]
  /\ UNCHANGED <<version, zip, dir, marker, source, extractions, overlooked,
                 raced>>

WalletNext ==
  \/ Replace
  \/ \E p \in Process :
       ComesToExtract(p) \/ Check(p) \/ Extract(p) \/ Touch(p) \/ Cut(p)

WalletSpec == WalletInit /\ [][WalletNext]_walletVars

-----------------------------------------------------------------------------
(* Properties *)

\* A wallet that the next connect() will take as extracted is whole and
\* current, through any cuts, and through replacements of the zip of which the
\* last is dated after the marker, or made before there is one: what a cut
\* extraction has left is overwritten.  Not so after a replacement by a zip with
\* an older date or that of the marker, which _extract_wallet() overlooks, nor
\* if the zip was replaced under an extraction, or two instances extracted at a
\* time; then the marker may vouch for ever for an old version or for files of
\* two versions.
MarkedIsCurrent ==
  ~raced /\ ~overlooked /\ ~MustExtract => \A m \in Member : content[m] = version
=============================================================================

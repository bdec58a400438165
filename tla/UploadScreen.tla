----------------------------- MODULE UploadScreen -----------------------------
(***************************************************************************)
(* The console's page that uploads a manifest: preview, then apply           *)
(* (apps/admin-web/src/app/platform/applications/manifest/page.tsx), for     *)
(* manifests of one application, beside others who change its catalog.       *)
(* The box stays editable while requests are under way.  How the server      *)
(* writes a manifest is in Registry; here an upload is one step.             *)
(***************************************************************************)
EXTENDS Integers, FiniteSets

CONSTANTS
    Row,                \* keys a manifest may declare
    Versions,           \* what a key may be declared as
    Documents,          \* the texts that parse: [Row -> Versions \cup {Off}]
    Off,                \* not declared; in the catalog: not active
    Unparsed            \* a text that does not parse

ASSUME DocumentsAssumption == Documents \subseteq [Row -> Versions \cup {Off}]

VARIABLES
    text, preview, applied, unregistered,   \* the state of the same names
    previewing, registering, applying,      \* the requests under way
    reading,            \* a dropped file being read
    registered,         \* server: the application's row is there
    offered,            \* server: its catalog
    crossed             \* history: an answer has come for a text that is gone

pageVars == <<text, preview, applied, unregistered, previewing, registering, applying,
              reading, registered, offered, crossed>>

Catalogs == [Row -> Versions \cup {Off}]
Texts == Documents \cup {Unparsed}
None == [pc |-> "none"]

(* toManifestDiff: keys, not what becomes of them.                           *)
Diff(from, to) ==
    [created     |-> {r \in Row : from[r] = Off /\ to[r] # Off},
     updated     |-> {r \in Row : from[r] # Off /\ to[r] # Off /\ from[r] # to[r]},
     deactivated |-> {r \in Row : from[r] # Off /\ to[r] = Off}]
Affected(diff) == diff.created \cup diff.updated \cup diff.deactivated

(* seen: the catalog the dry run, found: the one the upload compared with.   *)
Previewed == [pc : {"shown"}, manifest : Documents, seen : Catalogs]
PageTypeOK ==
    /\ text \in Texts
    /\ preview \in {None} \cup Previewed
    /\ applied \in {None} \cup [pc : {"shown"}, manifest : Documents, asPreviewed : BOOLEAN,
                                seen : Catalogs, found : Catalogs]
    /\ unregistered \in BOOLEAN
    /\ {previewing, registering} \subseteq
           {None} \cup [pc : {"finding", "creating", "found"}, manifest : Documents]
                  \cup [pc : {"computed"}, manifest : Documents, seen : Catalogs]
    /\ applying \in {None} \cup [pc : {"confirming", "sent"}, manifest : Documents, seen : Catalogs]
                           \cup [pc : {"written"}, manifest : Documents, seen : Catalogs, found : Catalogs]
    /\ reading \in {None} \cup [pc : {"reading"}, text : Texts]
    /\ registered \in BOOLEAN /\ crossed \in BOOLEAN
    /\ offered \in Catalogs

PageInit ==
    /\ text = Unparsed          \* the empty box
    /\ preview = None /\ applied = None /\ unregistered = FALSE
    /\ previewing = None /\ registering = None /\ applying = None /\ reading = None
    /\ registered \in BOOLEAN
    /\ offered = [r \in Row |-> Off]
    /\ crossed = FALSE

-----------------------------------------------------------------------------

(* The question covers the page.                                             *)
Clickable == applying.pc # "confirming"

(* The preview is left to be compared later.                                 *)
MutReplaceDocument(value) ==
    text' = value /\ crossed' = FALSE /\ UNCHANGED <<preview, applied, unregistered>>

(* replaceDocument: "any edit to the document invalidates everything derived *)
(* from it".                                                                 *)
ReplaceDocument(value) ==
    /\ text' = value
    /\ unregistered' = FALSE
    /\ preview' = None
    /\ applied' = None
    /\ crossed' = FALSE

Type(value) ==
    /\ Clickable /\ value # text
    /\ ReplaceDocument(value)
    /\ UNCHANGED <<previewing, registering, applying, reading, registered, offered>>

(* A file is read in the background.                                         *)
DropFile(value) ==
    /\ Clickable /\ reading = None
    /\ reading' = [pc |-> "reading", text |-> value]
    /\ UNCHANGED <<text, preview, applied, unregistered, previewing, registering, applying,
                   registered, offered, crossed>>

FileRead ==
    /\ reading # None
    /\ ReplaceDocument(reading.text)
    /\ reading' = None
    /\ UNCHANGED <<previewing, registering, applying, registered, offered>>

(* runPreview, ...                                                           *)
Preview ==
    /\ Clickable /\ previewing = None /\ applying = None
    /\ IF text = Unparsed
         THEN preview' = None /\ UNCHANGED <<unregistered, applied, previewing>>
         ELSE /\ previewing' = [pc |-> "finding", manifest |-> text]
              /\ unregistered' = FALSE /\ applied' = None
              /\ UNCHANGED preview
    /\ UNCHANGED <<text, registering, applying, reading, registered, offered, crossed>>

(* ... which looks for the application first, ...                            *)
FindApplication ==
    /\ previewing.pc = "finding"
    /\ IF registered
         THEN previewing' = [previewing EXCEPT !.pc = "found"] /\ UNCHANGED <<preview, unregistered, crossed>>
         ELSE /\ unregistered' = TRUE
              /\ crossed' = (crossed \/ previewing.manifest # text)
              /\ preview' = None /\ previewing' = None
    /\ UNCHANGED <<text, applied, registering, applying, reading, registered, offered>>

(* ... and registerAndPreview, which registers it first: a second row of the *)
(* same key is refused.                                                      *)
Register ==
    /\ Clickable /\ unregistered /\ registering = None /\ text # Unparsed
    /\ registering' = [pc |-> "creating", manifest |-> text]
    /\ UNCHANGED <<text, preview, applied, unregistered, previewing, applying, reading,
                   registered, offered, crossed>>

CreateApplication ==
    /\ registering.pc = "creating" /\ ~registered
    /\ registered' = TRUE
    /\ registering' = [registering EXCEPT !.pc = "found"]
    /\ unregistered' = FALSE
    /\ UNCHANGED <<text, preview, applied, previewing, applying, reading, offered, crossed>>

(* previewFor: the dry run, ...                                              *)
DryRun(p) == [pc |-> "computed", manifest |-> p.manifest, seen |-> offered]

Compute ==
    /\ \/ previewing.pc = "found" /\ previewing' = DryRun(previewing) /\ UNCHANGED registering
       \/ registering.pc = "found" /\ registering' = DryRun(registering) /\ UNCHANGED previewing
    /\ UNCHANGED <<text, preview, applied, unregistered, applying, reading, registered, offered, crossed>>

(* ... and setPreview, whatever is in the box by now.                        *)
SetPreview(p) ==
    /\ p.pc = "computed"
    /\ preview' = [pc |-> "shown", manifest |-> p.manifest, seen |-> p.seen]
    /\ crossed' = (crossed \/ p.manifest # text)

PreviewLands ==
    /\ \/ SetPreview(previewing) /\ previewing' = None /\ UNCHANGED registering
       \/ SetPreview(registering) /\ registering' = None /\ UNCHANGED previewing
    /\ UNCHANGED <<text, applied, unregistered, applying, reading, registered, offered>>

(* Either of them fails; only runPreview takes the old preview away.         *)
PreviewFails ==
    /\ \/ previewing # None /\ previewing' = None /\ preview' = None /\ UNCHANGED registering
       \/ registering # None /\ registering' = None /\ UNCHANGED <<previewing, preview>>
    /\ UNCHANGED <<text, applied, unregistered, applying, reading, registered, offered, crossed>>

(* apply, with the preview that is on the screen; what deactivates something *)
(* is confirmed first.                                                       *)
ShownDiff == Diff(preview.seen, preview.manifest)

Apply ==
    /\ Clickable /\ preview # None /\ applied = None
    /\ previewing = None /\ applying = None
    /\ Affected(ShownDiff) # {}
    /\ applying' = [pc |-> IF ShownDiff.deactivated # {} THEN "confirming" ELSE "sent",
                    manifest |-> preview.manifest, seen |-> preview.seen]
    /\ UNCHANGED <<text, preview, applied, unregistered, previewing, registering, reading,
                   registered, offered, crossed>>

Answer(yes) ==
    /\ applying.pc = "confirming"
    /\ applying' = IF yes THEN [applying EXCEPT !.pc = "sent"] ELSE None
    /\ UNCHANGED <<text, preview, applied, unregistered, previewing, registering, reading,
                   registered, offered, crossed>>

SendManifest ==
    /\ applying.pc = "sent"
    /\ offered' = applying.manifest
    /\ applying' = [pc |-> "written", manifest |-> applying.manifest,
                    seen |-> applying.seen, found |-> offered]
    /\ UNCHANGED <<text, preview, applied, unregistered, previewing, registering, reading,
                   registered, crossed>>

(* diffsMatch, of the preview that was confirmed and the upload's answer.    *)
DiffsMatch(seen, found, manifest) == Diff(seen, manifest) = Diff(found, manifest)

UploadLands ==
    /\ applying.pc = "written"
    /\ applied' = [pc |-> "shown", manifest |-> applying.manifest,
                   asPreviewed |-> DiffsMatch(applying.seen, applying.found, applying.manifest),
                   seen |-> applying.seen, found |-> applying.found]
    /\ crossed' = (crossed \/ applying.manifest # text)
    /\ applying' = None
    /\ UNCHANGED <<text, preview, unregistered, previewing, registering, reading, registered, offered>>

(* Refused, timed out, cut off; the upload may have been done.               *)
UploadFails ==
    /\ applying.pc \in {"sent", "written"}
    /\ applying' = None
    /\ UNCHANGED <<text, preview, applied, unregistered, previewing, registering, reading,
                   registered, offered, crossed>>

(* Somebody else's registration, upload or edit, or what a request did       *)
(* whose answer was lost.                                                    *)
SomeoneChanges ==
    /\ \/ ~registered /\ registered' = TRUE /\ UNCHANGED offered
       \/ registered /\ offered' \in Catalogs \ {offered} /\ UNCHANGED registered
    /\ UNCHANGED <<text, preview, applied, unregistered, previewing, registering, applying,
                   reading, crossed>>

PageNext ==
    \/ \E value \in Texts : Type(value) \/ DropFile(value)
    \/ FileRead \/ Preview \/ FindApplication \/ Register \/ CreateApplication
    \/ Compute \/ PreviewLands \/ PreviewFails
    \/ Apply \/ Answer(TRUE) \/ Answer(FALSE) \/ SendManifest \/ UploadLands \/ UploadFails
    \/ SomeoneChanges

PageSpec == PageInit /\ [][PageNext]_pageVars

-----------------------------------------------------------------------------
(* "There is never a preview belonging to text that is no longer in the box", *)
(* nor a result, unless its answer came after the edit; the next edit takes   *)
(* that away too.                                                             *)
ShownIsOfTheText ==
    ~crossed => /\ preview # None => preview.manifest = text
                /\ applied # None => applied.manifest = text

(* "The confirm compares the diff it applied with the diff it previewed and   *)
(* says so when they differ": who is told that the catalog moved is told the  *)
(* truth, and who is not has lost no key but those the preview said would be  *)
(* overwritten.                                                               *)
ToldOfMoves ==
    applied # None =>
        IF applied.asPreviewed
          THEN \A r \in Row : applied.seen[r] # applied.found[r] =>
                                  r \in Affected(Diff(applied.seen, applied.manifest))
          ELSE applied.seen # applied.found

UploadHonest == ShownIsOfTheText /\ ToldOfMoves
=============================================================================

-------------------------- MODULE CharacterLibrary --------------------------
(***************************************************************************)
(* Characters with their images, and the worlds they are linked to, edited *)
(* on several devices of one account: the character editor, the world      *)
(* dialog and the roster of the client (app/character_editor.rs,           *)
(* characters/mod.rs, worlds/mod.rs, app/update.rs, app/events.rs) and the *)
(* broker's handlers of what they send (dispatch in main.rs,               *)
(* validate_character in utils.rs).                                        *)
(*                                                                         *)
(* A listing carries no image bytes: a client fetches them image by image, *)
(* and saves a draft whose bytes it does not hold by sending none.  Images *)
(* are numbered as they are made; the bytes of image i are written i and   *)
(* missing bytes 0, so that bytes under a wrong id show.  Every image      *)
(* counts one towards the budget of bytes.  Text fields, labels, entries   *)
(* of worlds, publishing and the characters of other accounts are left     *)
(* out.  Requests of one connection are handled concurrently.  What a      *)
(* handler sends is received in the same step: a client that acts before   *)
(* it is received only adds a request, which might as well have been added *)
(* before the handler ran.                                                 *)
(***************************************************************************)
EXTENDS Naturals, SequencesExt, Bags, TLC

CONSTANTS
  Dev,        \* the devices
  Char,       \* ids of characters
  Realm,      \* ids of worlds
  NoOne,      \* no id: a draft that was not saved yet
  MaxImg,     \* images that may be made
  MaxImages,  \* MAX_CHARACTER_IMAGES
  Budget,     \* MAX_CHARACTER_IMAGE_BYTES
  MaxEdits,   \* what the users do: for each part, how many steps
  MaxCuts     \* connections that are lost, for each part

VARIABLES
  lib,     \* the tables: chars, worlds, and the ids ever used
  dev,     \* what each device holds: see NoWorld
  calls,   \* the handlers under way, a bag
  missed,  \* images whose request was answered with an error
  painted, edits, cuts

libVars == <<lib, dev, calls, missed, painted, edits, cuts>>

Gone == {NoOne}
NoPictures == [i \in {} |-> 0]
Blank == [id |-> NoOne, imgs |-> NoPictures, def |-> 0]

\* Of a device: the roster (chars) and the worlds; asked, its
\* character_image_requests; open, draft_character_open; the draft, and links,
\* its draft_world_ids; world, the world_draft; importing, what is shown as
\* being imported (char_import_pending, import_pending).
NoWorld == [id |-> NoOne, links |-> {}]

Missing(imgs) == {i \in DOMAIN imgs : imgs[i] = 0}
Held(imgs) == DOMAIN imgs \ Missing(imgs)
Stored(c, i) == c \in DOMAIN lib.chars /\ i \in DOMAIN lib.chars[c].imgs
Put(f, x, v) == (x :> v) @@ f

-----------------------------------------------------------------------------
(* Requests and answers.                                                   *)

\* A request of device d; `arg' is what its handler works on, and then what it
\* has read for it.
Call(d, op, arg) == [dev |-> d, op |-> op, arg |-> arg, read |-> FALSE]
Add(set) == calls (+) SetToBag(set)
Done(t) == calls (-) SetToBag({t})
Pending == BagToSet(calls)

\* apply_delta of the worlds that changed: those in `deltas', removed if None.
Applied(worlds, deltas) ==
  RestrictDomain(deltas @@ worlds, LAMBDA w : w \notin DOMAIN deltas \/ deltas[w] # Gone)

\* refresh(); conversations and memories are other modules', and a listing of
\* the worlds is left out while there have been none.
Relist(d) ==
  {Call(d, "characters", NoOne)} \cup
  (IF Realm \cap lib.used = {} THEN {} ELSE {Call(d, "worlds", NoOne)})

\* Response::Accepted: Refresh.  On a lost connection nobody receives it, and
\* send_delta! fails before it publishes to the other devices.
Accept(t, worlds) ==
  /\ calls' = Done(t) (+) SetToBag(IF t.dev = NoOne THEN {} ELSE Relist(t.dev))
  /\ dev' = IF t.dev = NoOne THEN dev
            ELSE [d \in Dev |-> [dev[d] EXCEPT !.worlds = Applied(@, worlds)]]

\* An error answer: whatever it is about, no import is shown as pending.
Deny(t) ==
  /\ calls' = Done(t) /\ UNCHANGED lib
  /\ dev' = IF t.dev = NoOne THEN dev ELSE [dev EXCEPT ![t.dev].importing = {}]

-----------------------------------------------------------------------------
(* The broker.                                                             *)

\* A plausible slip: matching by position instead of by id.
FillByPosition(draft) ==
  IF draft.id \in DOMAIN lib.chars
  THEN LET stored == lib.chars[draft.id].imgs
       IN [i \in DOMAIN draft.imgs |->
             IF draft.imgs[i] = 0 /\ DOMAIN stored # {} THEN stored[Min(DOMAIN stored)]
             ELSE draft.imgs[i]]
  ELSE draft.imgs

\* UpsertCharacter, before its transaction: images sent without bytes keep the
\* stored ones.
Fill(draft) ==
  IF draft.id \in DOMAIN lib.chars
  THEN LET stored == lib.chars[draft.id].imgs
       IN [i \in DOMAIN draft.imgs |->
             IF draft.imgs[i] = 0 /\ i \in DOMAIN stored THEN stored[i] ELSE draft.imgs[i]]
  ELSE draft.imgs

\* validate_character: empty bytes are no PNG.
Valid(imgs, def) ==
  /\ Cardinality(DOMAIN imgs) <= MaxImages
  /\ Missing(imgs) = {}
  /\ Cardinality(DOMAIN imgs) <= Budget
  /\ def # 0 => def \in DOMAIN imgs

CheckUpsert(t) ==
  /\ t.op = "upsert" /\ ~t.read
  /\ LET full == Fill(t.arg.draft)
     IN IF ~Valid(full, t.arg.draft.def) THEN Deny(t)
        ELSE /\ calls' = Done(t) (+) SetToBag({[t EXCEPT !.read = TRUE, !.arg.draft.imgs = full]})
             /\ UNCHANGED <<lib, dev>>

\* The worlds after character c was saved with links to `worlds'.
Relinked(c, worlds) ==
  [w \in DOMAIN lib.worlds |->
     IF w \in worlds THEN lib.worlds[w] \cup {c} ELSE lib.worlds[w] \ {c}]

\* The transaction of UpsertCharacter: the character, then every world whose
\* link changes.  An unknown world rolls all of it back.
CommitUpsert(t) ==
  /\ t.op = "upsert" /\ t.read
  /\ IF ~(t.arg.links \subseteq DOMAIN lib.worlds) THEN Deny(t)
     ELSE \E c \in IF t.arg.draft.id # NoOne THEN {t.arg.draft.id} ELSE Char \ lib.used :
            LET linked == Relinked(c, t.arg.links)
            IN /\ lib' = [chars |-> Put(lib.chars, c, [imgs |-> t.arg.draft.imgs,
                                                      def |-> t.arg.draft.def]),
                          worlds |-> linked, used |-> lib.used \cup {c}]
               /\ Accept(t, RestrictDomain(linked, LAMBDA w : linked[w] # lib.worlds[w]))

\* SaveWorld: one transaction.  Every linked character must be there.
SaveWorld(t) ==
  /\ t.op = "save world"
  /\ IF ~(t.arg.links \subseteq DOMAIN lib.chars) THEN Deny(t)
     ELSE /\ lib' = [lib EXCEPT !.worlds = Put(@, t.arg.id, t.arg.links), !.used = @ \cup {t.arg.id}]
          /\ Accept(t, t.arg.id :> t.arg.links)

DeleteWorld(t) ==
  /\ t.op = "delete world"
  /\ IF t.arg.id \notin DOMAIN lib.worlds THEN Deny(t)
     ELSE /\ lib' = [lib EXCEPT !.worlds = RestrictDomain(@, LAMBDA w : w # t.arg.id)]
          /\ Accept(t, t.arg.id :> Gone)

\* DeleteEntity of a character no conversation uses.  Its links stay in the
\* worlds; its delta changes nothing a client shows here.
DeleteCharacter(t) ==
  /\ t.op = "delete"
  /\ IF t.arg.id \notin DOMAIN lib.chars THEN Deny(t)
     ELSE /\ lib' = [lib EXCEPT !.chars = RestrictDomain(@, LAMBDA c : c # t.arg.id)]
          /\ Accept(t, <<>>)

\* ListCharacters clears the bytes; ListWorlds; GetCharacterImage.
Listing == [c \in DOMAIN lib.chars |->
              [imgs |-> [i \in DOMAIN lib.chars[c].imgs |-> 0], def |-> lib.chars[c].def]]

Reading(t) ==
  CASE t.op = "characters" -> [list |-> Listing]
    [] t.op = "worlds" -> [rows |-> lib.worlds]
    [] OTHER -> [char |-> t.arg.char, id |-> t.arg.id,
                 data |-> lib.chars[t.arg.char].imgs[t.arg.id]]

\* The query and the send of its rows are two steps: a commit of another
\* handler, and the delta of it, may come between them.
Read(t) ==
  /\ t.op \in {"characters", "worlds", "image"} /\ ~t.read
  /\ IF t.op = "image" /\ ~Stored(t.arg.char, t.arg.id) THEN Deny(t)
     ELSE /\ calls' = Done(t) (+) SetToBag({[t EXCEPT !.read = TRUE, !.arg = Reading(t)]})
          /\ UNCHANGED <<lib, dev>>

\* ImportSillyTavernWorld and ImportCharacterFromText: the model's answer makes
\* a new draft, or cannot be read.  The client puts it in place of the draft it
\* has by then; the links of a character's old draft stay.
PreviewWorld(t) ==
  /\ calls' = Done(t) /\ UNCHANGED lib
  /\ dev' = IF t.dev = NoOne THEN dev
            ELSE [dev EXCEPT ![t.dev].world = NoWorld, ![t.dev].importing = @ \ {"world"}]

PreviewCharacter(t) ==
  /\ calls' = Done(t) /\ UNCHANGED lib
  /\ dev' = IF t.dev = NoOne THEN dev
            ELSE [dev EXCEPT ![t.dev].draft = Blank, ![t.dev].open = TRUE,
                             ![t.dev].importing = @ \ {"character"}]

ImportWorld(t) == t.op = "import world" /\ (Deny(t) \/ PreviewWorld(t))
ImportCharacter(t) == t.op = "import character" /\ (Deny(t) \/ PreviewCharacter(t))

-----------------------------------------------------------------------------
(* The client: what arrives.                                               *)

\* set_characters: bytes known from the old roster, or from the draft.
KnownBytes(d, c, i) ==
  IF c \in DOMAIN dev[d].chars /\ i \in Held(dev[d].chars[c].imgs) THEN dev[d].chars[c].imgs[i]
  ELSE IF dev[d].draft.id = c /\ i \in Held(dev[d].draft.imgs) THEN dev[d].draft.imgs[i]
  ELSE 0

\* A plausible slip: an answered request stays marked, and is not asked again.
SetCharactersOnce(t, list) ==
  LET d == t.dev
      roster == [c \in DOMAIN list |->
                   [list[c] EXCEPT !.imgs = [i \in DOMAIN @ |-> KnownBytes(d, c, i)]]]
  IN /\ dev' = [dev EXCEPT ![d].chars = roster]
     /\ calls' = Done(t)

SetCharacters(t, list) ==
  LET d == t.dev
      roster == [c \in DOMAIN list |->
                   [list[c] EXCEPT !.imgs = [i \in DOMAIN @ |-> KnownBytes(d, c, i)]]]
      wanted == UNION {{<<c, i>> : i \in Missing(roster[c].imgs)} : c \in DOMAIN roster}
      fetch == wanted \ dev[d].asked
  IN /\ dev' = [dev EXCEPT ![d].chars = roster, ![d].asked = wanted]
     /\ calls' = Done(t) (+) SetToBag({Call(d, "image", [char |-> key[1], id |-> key[2]]) : key \in fetch})

\* store_character_image
StoreImage(t, image) ==
  LET d == t.dev IN
  /\ dev' = [dev EXCEPT
       ![d].asked = @ \ {<<image.char, image.id>>},
       ![d].draft.imgs = IF dev[d].draft.id = image.char /\ image.id \in Missing(@)
                         THEN [@ EXCEPT ![image.id] = image.data] ELSE @,
       ![d].chars = IF image.char \in DOMAIN @ /\ image.id \in DOMAIN @[image.char].imgs
                    THEN [@ EXCEPT ![image.char].imgs[image.id] = image.data] ELSE @]
  /\ calls' = Done(t)

\* Response::Worlds
SetWorlds(t, rows) ==
  /\ dev' = [dev EXCEPT ![t.dev].worlds = rows, ![t.dev].links = @ \cap DOMAIN rows]
  /\ calls' = Done(t)

\* handle_frame
Deliver(t) ==
  /\ t.read /\ t.op # "upsert"
  /\ \/ t.dev = NoOne /\ calls' = Done(t) /\ UNCHANGED dev
     \/ t.dev # NoOne /\ t.op = "characters" /\ SetCharacters(t, t.arg.list)
     \/ t.dev # NoOne /\ t.op = "image" /\ StoreImage(t, t.arg)
     \/ t.dev # NoOne /\ t.op = "worlds" /\ SetWorlds(t, t.arg.rows)
  /\ UNCHANGED lib

Handler(t) ==
  /\ \/ CheckUpsert(t) \/ CommitUpsert(t) \/ SaveWorld(t) \/ DeleteWorld(t)
     \/ DeleteCharacter(t) \/ Read(t) \/ ImportWorld(t) \/ ImportCharacter(t) \/ Deliver(t)
  /\ missed' = IF t.op = "image" /\ ~t.read /\ ~Stored(t.arg.char, t.arg.id)
               THEN missed \cup {<<t.arg.char, t.arg.id>>} ELSE missed
  /\ UNCHANGED <<painted, edits, cuts>>

-----------------------------------------------------------------------------
(* The client: what the user does.                                         *)

Edit(d) == edits' = edits + 1 /\ UNCHANGED <<lib, missed, cuts>>
Choose(d) == Edit(d) /\ UNCHANGED <<calls, painted>>
Editor(d) == Edit(d) /\ dev[d].open
Draw(d, draft) == dev' = [dev EXCEPT ![d].draft = draft]

\* OpenCharactersDialog and CloseCharactersDialog
OpenEditor(d) ==
  /\ Choose(d) /\ ~dev[d].open
  /\ dev' = [dev EXCEPT ![d].open = TRUE, ![d].draft = Blank]

CloseEditor(d) ==
  /\ Choose(d) /\ dev[d].open
  /\ dev' = [dev EXCEPT ![d].open = FALSE]

\* From<&Character> for DraftCharacter
DraftOf(d, c) == [id |-> c, imgs |-> dev[d].chars[c].imgs, def |-> dev[d].chars[c].def]

\* Select and New
SelectCharacter(d, c) ==
  /\ Choose(d) /\ dev[d].open
  /\ dev' = IF c = NoOne THEN [dev EXCEPT ![d].draft = Blank, ![d].links = {}]
            ELSE [dev EXCEPT ![d].draft = DraftOf(d, c),
                             ![d].links = {w \in DOMAIN dev[d].worlds : c \in dev[d].worlds[w]}]

\* import_character_image_paths, and add_generated_portrait: within the limits,
\* where bytes that have not arrived count nothing.  An image named after the
\* character becomes the default.
AddImage(d) ==
  /\ Editor(d) /\ painted < MaxImg
  /\ LET draft == dev[d].draft
     IN /\ Cardinality(DOMAIN draft.imgs) < MaxImages
        /\ Cardinality(Held(draft.imgs)) + 1 <= Budget
        /\ \E def \in {painted + 1, IF draft.def = 0 THEN painted + 1 ELSE draft.def} :
             Draw(d, [draft EXCEPT !.imgs = Put(@, painted + 1, painted + 1), !.def = def])
  /\ painted' = painted + 1
  /\ UNCHANGED calls

\* draft_from_zip: a draft with as many of the archive's images as the limits
\* allow; the default is one of them.
ArchiveDrafts ==
  {[id |-> NoOne, imgs |-> [i \in painted + 1 .. last |-> i], def |-> def] :
     <<last, def>> \in {pair \in (painted + 1 .. MaxImg) \X (painted + 1 .. MaxImg) :
                         /\ pair[2] <= pair[1]
                         /\ pair[1] - painted <= Min({MaxImages, Budget})}}

\* import_character
ImportCard(d) ==
  /\ Editor(d) /\ "character" \notin dev[d].importing
  /\ \E draft \in ArchiveDrafts :
       /\ dev' = [dev EXCEPT ![d].draft = draft, ![d].links = {}]
       /\ painted' = painted + Cardinality(DOMAIN draft.imgs)
  /\ UNCHANGED calls

\* ai_import_character
AskCharacter(d) ==
  /\ Editor(d) /\ "character" \notin dev[d].importing
  /\ dev' = [dev EXCEPT ![d].importing = @ \cup {"character"}]
  /\ calls' = Add({Call(d, "import character", NoOne)})
  /\ UNCHANGED painted

\* DraftCharacter::update: DeleteImage and SetDefaultImage.
WithoutImage(draft, i) ==
  LET rest == RestrictDomain(draft.imgs, LAMBDA j : j # i)
  IN [draft EXCEPT !.imgs = rest,
                   !.def = IF @ # i THEN @ ELSE IF DOMAIN rest = {} THEN 0 ELSE Min(DOMAIN rest)]

DropImage(d, i) ==
  /\ Editor(d) /\ Draw(d, WithoutImage(dev[d].draft, i)) /\ UNCHANGED <<calls, painted>>

SetDefaultImage(d, i) ==
  /\ Editor(d) /\ dev[d].draft.def # i
  /\ Draw(d, [dev[d].draft EXCEPT !.def = i]) /\ UNCHANGED <<calls, painted>>

ToggleWorldLink(d, w) ==
  /\ Editor(d)
  /\ dev' = [dev EXCEPT ![d].links = IF w \in @ THEN @ \ {w} ELSE @ \cup {w}]
  /\ UNCHANGED <<calls, painted>>

\* Save; ids for one character not saved before are left.
SaveCharacter(d) ==
  /\ Editor(d)
  /\ dev[d].draft.id = NoOne =>
       /\ Char \ lib.used # {}
       /\ \A t \in Pending : t.op = "upsert" => t.arg.draft.id # NoOne
  /\ calls' = Add({Call(d, "upsert", [draft |-> dev[d].draft, links |-> dev[d].links])})
  /\ dev' = [dev EXCEPT ![d].open = FALSE]
  /\ UNCHANGED painted

RemoveCharacter(d) ==
  /\ Editor(d) /\ dev[d].draft.id # NoOne
  /\ calls' = Add({Call(d, "delete", [id |-> dev[d].draft.id])})
  /\ dev' = [dev EXCEPT ![d].open = FALSE]
  /\ UNCHANGED painted

\* WorldDialogState::update: SelectWorld and NewWorld.
SelectWorld(d, w) ==
  /\ Choose(d)
  /\ dev' = [dev EXCEPT ![d].world =
               [id |-> w, links |-> IF w = NoOne THEN {} ELSE dev[d].worlds[w]]]

ToggleCharacterLink(d, c) ==
  /\ Edit(d)
  /\ dev' = [dev EXCEPT ![d].world.links = IF c \in @ THEN @ \ {c} ELSE @ \cup {c}]
  /\ UNCHANGED <<calls, painted>>

\* SaveWorld gives a new world its id, and keeps it in the draft.
SubmitWorld(d) ==
  /\ Edit(d)
  /\ \E w \in IF dev[d].world.id # NoOne THEN {dev[d].world.id}
              ELSE {w \in Realm \ lib.used : \A e \in Dev : dev[e].world.id # w} :
       /\ dev' = [dev EXCEPT ![d].world.id = w]
       /\ calls' = Add({Call(d, "save world", [id |-> w, links |-> dev[d].world.links])})
  /\ UNCHANGED painted

ImportLorebook(d) ==
  /\ Edit(d) /\ "world" \notin dev[d].importing
  /\ dev' = [dev EXCEPT ![d].importing = @ \cup {"world"}]
  /\ calls' = Add({Call(d, "import world", NoOne)})
  /\ UNCHANGED painted

RemoveWorld(d) ==
  /\ Edit(d) /\ dev[d].world.id # NoOne
  /\ calls' = Add({Call(d, "delete world", [id |-> dev[d].world.id])})
  /\ dev' = [dev EXCEPT ![d].world = NoWorld]
  /\ UNCHANGED painted

\* The link is lost and the session resumed: handlers under way have nobody to
\* answer; authenticated() refreshes; character_image_requests and what is shown
\* as being imported stay as they are.
Cut(d) ==
  /\ cuts' = cuts + 1
  /\ calls' = LET orphan(t) == [t EXCEPT !.dev = IF @ = d THEN NoOne ELSE @]
                  old == [t \in {orphan(u) : u \in Pending} |->
                            FoldSet(LAMBDA u, n : n + calls[u], 0, {u \in Pending : orphan(u) = t})]
              IN old (+) SetToBag(Relist(d))
  /\ UNCHANGED <<lib, dev, missed, painted, edits>>

-----------------------------------------------------------------------------

\* A library of one character, with an image or with a world it is linked to.
\* Every device has listed it and has its editor open on it; the image of one of
\* them has not arrived.
LibraryInit(part) ==
  /\ \E c \in Char, w \in Realm, late \in Dev :
       LET one == part # "links"
           worlds == IF one THEN <<>> ELSE w :> {c}
           roster(d) == [imgs |-> IF one THEN 1 :> (IF d = late THEN 0 ELSE 1) ELSE NoPictures,
                         def |-> IF one THEN 1 ELSE 0]
       IN /\ lib = [chars |-> c :> [imgs |-> IF one THEN 1 :> 1 ELSE NoPictures, def |-> roster(late).def],
                    worlds |-> worlds, used |-> {c} \cup DOMAIN worlds]
          /\ dev = [d \in Dev |->
                     [chars |-> c :> roster(d), worlds |-> worlds, open |-> TRUE,
                      asked |-> {<<c, i>> : i \in Missing(roster(d).imgs)},
                      draft |-> [id |-> c] @@ roster(d), links |-> DOMAIN worlds, importing |-> {},
                      world |-> IF one THEN NoWorld ELSE [id |-> w, links |-> {c}]]]
          /\ calls = SetToBag(IF one THEN {Call(late, "image", [char |-> c, id |-> 1])} ELSE {})
  /\ missed = {} /\ painted = 1 /\ edits = 0 /\ cuts = 0

\* No library: another part of the client is looked at.
LibraryIdle ==
  /\ lib = [chars |-> <<>>, worlds |-> <<>>, used |-> {}] /\ dev = <<>> /\ calls = <<>>
  /\ missed = {} /\ painted = 0 /\ edits = 0 /\ cuts = 0

EditorStep(d) ==
  \/ OpenEditor(d) \/ CloseEditor(d) \/ SaveCharacter(d) \/ RemoveCharacter(d)
  \/ \E c \in DOMAIN dev[d].chars \cup {NoOne} : SelectCharacter(d, c)

ImageStep(d) ==
  \/ AddImage(d) \/ ImportCard(d)
  \/ \E i \in DOMAIN dev[d].draft.imgs : DropImage(d, i) \/ SetDefaultImage(d, i)

LinkStep(d) ==
  \/ SubmitWorld(d) \/ RemoveWorld(d) \/ ImportLorebook(d)
  \/ \E w \in DOMAIN dev[d].worlds : ToggleWorldLink(d, w)
  \/ \E w \in DOMAIN dev[d].worlds \cup {NoOne} : SelectWorld(d, w)
  \/ \E c \in DOMAIN dev[d].chars : ToggleCharacterLink(d, c)

LibraryNext(part) ==
  \/ /\ edits < MaxEdits[part]
     /\ \E d \in Dev : \/ EditorStep(d)
                       \/ part # "links" /\ ImageStep(d)
                       \/ part = "links" /\ LinkStep(d)
                       \/ part # "portraits" /\ AskCharacter(d)
  \/ cuts < MaxCuts[part] /\ \E d \in Dev : Cut(d)
  \/ \E t \in Pending : Handler(t)

\* Handlers run, and the event loop takes what they send.
LibraryFairness == WF_libVars(\E t \in Pending : Handler(t))

-----------------------------------------------------------------------------
(* Properties.                                                             *)

\* UpsertCharacter keeps the bytes of images the client sent none for, and
\* store_character_image and set_characters move bytes between a roster and a
\* draft: an image never has the bytes of another one, the broker stores none
\* without bytes, and the default image of a stored character or of a draft is
\* one of its images.
PortraitsAreWhole ==
  /\ \A c \in DOMAIN lib.chars :
       /\ \A i \in DOMAIN lib.chars[c].imgs : lib.chars[c].imgs[i] = i
       /\ lib.chars[c].def \in DOMAIN lib.chars[c].imgs \cup {0}
  /\ \A d \in DOMAIN dev :
       /\ \A i \in Held(dev[d].draft.imgs) : dev[d].draft.imgs[i] = i
       /\ dev[d].draft.def \in DOMAIN dev[d].draft.imgs \cup {0}
       /\ \A c \in DOMAIN dev[d].chars :
            \A i \in Held(dev[d].chars[c].imgs) : dev[d].chars[c].imgs[i] = i

Lacks(d, c, i) == d \in DOMAIN dev /\ c \in DOMAIN dev[d].chars /\ i \in Missing(dev[d].chars[c].imgs)

\* set_characters: "keep bytes already held for unchanged images and fetch the
\* rest once" (app/character_editor.rs 110).  An image a roster lists without
\* bytes gets them or leaves the roster while the link holds, unless a request
\* for it met its character deleted: a save of another device brings the
\* character back, and the request stays marked.  It also stays marked when the
\* link is lost with its answer.
PortraitsArrive ==
  <>[](cuts = 0 => \A d \in Dev, c \in Char, i \in 1..MaxImg :
                     Lacks(d, c, i) => <<c, i>> \in missed)
=============================================================================

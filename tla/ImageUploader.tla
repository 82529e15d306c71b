--------------------------- MODULE ImageUploader ---------------------------
(***************************************************************************)
(* The image uploader of the forms                                         *)
(* (src/src/components/party-image-uploader.tsx): one image that every     *)
(* upload replaces, or a list of up to maxFiles.  The files of one choice  *)
(* are optimized and stored side by side, each ending in an address or in  *)
(* an error; the choice is over when all of them are.  A choice works on   *)
(* the value its render had: props.value as it was when it began.          *)
(*                                                                         *)
(* An address is new with every upload: the number of its choice and of    *)
(* its file.                                                               *)
(***************************************************************************)
EXTENDS Integers, Sequences, SequencesExt

CONSTANTS Single,     \* whether the uploader holds one image
          maxFiles,   \* the images a list may hold
          MaxChoices  \* bound: choices of files

VARIABLES
  value,       \* the images
  choices,     \* choices under way: their number, their files' stages, and
               \* the value they began with
  uploading,
  frame,       \* whether a frame is due that moves the focus
  focused,     \* whether the remove button has the focus
  due,         \* ghost: an upload replaced the image, and the focus is owed
  chosen

vars == <<value, choices, uploading, frame, focused, due, chosen>>

Addresses == (0..MaxChoices) \X (1..maxFiles)

TypeOK ==
  /\ Len(value) <= maxFiles /\ \A i \in DOMAIN value : value[i] \in Addresses
  /\ \A c \in choices : Len(c.base) <= maxFiles /\ Len(c.stage) \in 1..maxFiles
  /\ {uploading, frame, focused, due} \subseteq BOOLEAN
  /\ uploading => choices # {}

-----------------------------------------------------------------------------
(* Mutant: one slot too many. *)
slotsPlusOne == maxFiles + 1 - Len(value)

slots == IF Single THEN 1 ELSE maxFiles - Len(value)

(* By the picker, the keyboard or a drop; the files beyond the free slots  *)
(* are left out.  Nothing but the pointer waits for an upload under way.   *)
handleFiles(n) ==
  /\ chosen < MaxChoices /\ chosen' = chosen + 1 /\ slots > 0
  /\ LET toUpload == IF n < slots THEN n ELSE slots
     IN  choices' = choices \cup {[serial |-> chosen', base |-> value,
                                   stage |-> [i \in 1..toUpload |-> "chosen"]]}
  /\ uploading' = TRUE
  /\ UNCHANGED <<value, frame, focused, due>>

At(c, i, stage) == (choices \ {c}) \cup {[c EXCEPT !.stage[i] = stage]}

(* optimizeImage, the ticket with the upload address, the PUT.             *)
After(stage) ==
  CASE stage = "chosen" -> "optimized"
    [] stage = "optimized" -> "ticket"
    [] stage = "ticket" -> "stored"

uploadOptimized(c, i) ==
  /\ c.stage[i] \in {"chosen", "optimized", "ticket"}
  /\ choices' = At(c, i, After(c.stage[i]))
  /\ UNCHANGED <<value, uploading, frame, focused, due, chosen>>

(* A wrong type or size, a broken image, no address, or no storage.        *)
FileFails(c, i) ==
  /\ c.stage[i] \in {"chosen", "optimized", "ticket"}
  /\ choices' = At(c, i, "failed")
  /\ UNCHANGED <<value, uploading, frame, focused, due, chosen>>

Stored(c) == {i \in DOMAIN c.stage : c.stage[i] = "stored"}

(* Mutant: a file that fails takes the others with it. *)
uploadedTogether(c) ==
  IF Stored(c) = DOMAIN c.stage THEN [i \in DOMAIN c.stage |-> <<c.serial, i>>] ELSE <<>>

uploaded(c) ==
  [k \in 1..Cardinality(Stored(c)) |->
     <<c.serial, CHOOSE i \in Stored(c) : Cardinality({j \in Stored(c) : j <= i}) = k>>]

(* What the choice makes of the value it began with.                       *)
Result(c) ==
  IF Single THEN <<uploaded(c)[1]>>
  ELSE LET all == c.base \o uploaded(c)
       IN  SubSeq(all, 1, IF Len(all) < maxFiles THEN Len(all) ELSE maxFiles)

Over(c) == \A i \in DOMAIN c.stage : c.stage[i] \in {"stored", "failed"}

(* Mutant: the cleanup of the effect cancels the frame it has just asked for. *)
FocusEffectCancelled(replaced) == frame' = (~replaced /\ frame)

(* The effect of a new single image: a frame that moves the focus.         *)
FocusEffect(replaced) == frame' = (replaced \/ frame)

(* Mutant: a choice of which nothing was stored leaves the spinner. *)
SettleOnSuccess(c) ==
  /\ Over(c) /\ choices' = choices \ {c}
  /\ IF uploaded(c) = <<>> THEN UNCHANGED <<value, frame, due, uploading>>
     ELSE /\ uploading' = FALSE
          /\ value' = Result(c) /\ FocusEffect(Single) /\ due' = Single
  /\ UNCHANGED <<focused, chosen>>

(* The choice is over.                                                     *)
Settle(c) ==
  /\ Over(c) /\ choices' = choices \ {c} /\ uploading' = FALSE
  /\ IF uploaded(c) = <<>> THEN UNCHANGED <<value, frame, due>>
     ELSE value' = Result(c) /\ FocusEffect(Single) /\ due' = Single
  /\ UNCHANGED <<focused, chosen>>

Frame ==
  /\ frame /\ frame' = FALSE /\ focused' = TRUE /\ due' = FALSE
  /\ UNCHANGED <<value, choices, uploading, chosen>>

removeAt(i) ==
  /\ value' = RemoveAt(value, i)
  /\ frame' = FALSE /\ focused' = FALSE /\ due' = FALSE
  /\ UNCHANGED <<choices, uploading, chosen>>

(* The user moves the focus.                                               *)
Blur ==
  /\ focused /\ focused' = FALSE
  /\ UNCHANGED <<value, choices, uploading, frame, due, chosen>>

Init ==
  /\ value \in {<<>>, <<<<0, 1>>>>} /\ choices = {} /\ uploading = FALSE
  /\ frame = FALSE /\ focused = FALSE /\ due = FALSE /\ chosen = 0

Network ==
  \E c \in choices :
    Settle(c) \/ \E i \in DOMAIN c.stage : uploadOptimized(c, i) \/ FileFails(c, i)

Next ==
  \/ \E n \in 1..maxFiles + 1 : handleFiles(n)
  \/ Network \/ Frame \/ Blur
  \/ \E i \in DOMAIN value : removeAt(i)

Spec == Init /\ [][Next]_vars

-----------------------------------------------------------------------------
(* Whatever happens to the files next to it, every file that was stored is *)
(* an image when its choice is over.                                       *)
StoredIsKept ==
  \A c \in choices : (Over(c) /\ ~(\E d \in choices' : d.serial = c.serial))
    => \A i \in Stored(c) : Contains(value', <<c.serial, i>>)

(* An uploader that is busy comes back, whatever failed.                   *)
Busy == uploading

(* Line 146: after an upload the drop zone is gone, and the focus moves to *)
(* the remove button of the image, unless the image is gone as well.       *)
FocusOwed == due
FocusIsMoved == focused \/ value = <<>>

(* What they rest on in a list: a choice takes no more files than the      *)
(* value it began with leaves room for.                                    *)
ChoiceRecords == [serial : 1..MaxChoices, base : Seq(Addresses),
            stage : Seq({"chosen", "optimized", "ticket", "stored", "failed"})]
RoomInv ==
  /\ TypeOK /\ value \in Seq(Addresses) /\ chosen \in 0..MaxChoices
  /\ choices \subseteq ChoiceRecords
  /\ \A c \in choices : Len(c.base) + Len(c.stage) <= maxFiles
=============================================================================

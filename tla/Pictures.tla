------------------------------ MODULE Pictures -------------------------------
(***************************************************************************)
(* Pictures in the playground: attachment-input.tsx puts them into a chat  *)
(* prompt, image-generator.tsx into an edit request.  Files are read in    *)
(* the background, and what the readers do with them was fixed when they   *)
(* were picked, under the list and the model of that moment.  A file that  *)
(* cannot be read is as if it had not been picked.                         *)
(***************************************************************************)
EXTENDS Screens, SequencesExt

CONSTANTS
    MaxAttachments,    \* MAX_ATTACHMENTS
    MaxFileSize,       \* MAX_FILE_SIZE
    MaxTotalSize       \* MAX_TOTAL_SIZE

ASSUME SizesAssumption == MaxAttachments \in Nat /\ MaxFileSize \in Nat /\ MaxTotalSize \in Nat

File(type, size) == [type |-> type, size |-> size]
Files == {File("png", 1), File("png", 2), File("jpeg", 1), File("text", 1), File("png", MaxFileSize + 1)}
Picks == {<<f>> : f \in Files} \cup {<<f, g>> : f \in Files, g \in Files}
SUPPORTED_IMAGE_TYPES == {"png", "jpeg"}
decodedBytes(fs) ==
    LET total[k \in 0..Len(fs)] == IF k = 0 THEN 0 ELSE total[k - 1] + fs[k].size IN total[Len(fs)]
FirstOf(fs, k) == SubSeq(fs, 1, Min({k, Len(fs)}))

\* imageCapabilities of the models on offer.
ImageModels ==
    [both |-> [edit |-> TRUE,  mask |-> TRUE,  references |-> 2, each |-> 2, total |-> 3, formats |-> {"png", "jpeg"}],
     one  |-> [edit |-> TRUE,  mask |-> FALSE, references |-> 1, each |-> 1, total |-> 1, formats |-> {"png"}],
     none |-> [edit |-> FALSE, mask |-> FALSE, references |-> 1, each |-> 1, total |-> 1, formats |-> {"png"}]]
Caps == ImageModels[local.model]

AttachInit == local = [about |-> "attach", left |-> MaxClicks, attached |-> <<>>, sent |-> <<>>] /\ calls = NoCalls
ImageInit ==
    /\ local = [about |-> "image", left |-> MaxClicks, model |-> None, mode |-> "generate",
                images |-> <<>>, mask |-> None, generating |-> FALSE, results |-> FALSE]
    /\ calls = Plus(NoCalls, Call("models", None))
PicturesInit == screen = "pictures" /\ db = None /\ (AttachInit \/ ImageInit)

-----------------------------------------------------------------------------
(* attachment-input.tsx *)

\* processFiles: those of the files that still go with the list it started from.
Accepted(list, files) ==
    LET takes(new, f) == /\ Len(list) + Len(new) < MaxAttachments
                         /\ f.size <= MaxFileSize
                         /\ decodedBytes(list) + decodedBytes(new) + f.size <= MaxTotalSize
                         /\ f.type \in SUPPORTED_IMAGE_TYPES
        new[k \in 0..Len(files)] == IF k = 0 THEN <<>>
                                    ELSE IF takes(new[k - 1], files[k]) THEN Append(new[k - 1], files[k])
                                    ELSE new[k - 1]
    IN  new[Len(files)]

\* Picked, pasted or dropped.
AttachFiles(files) ==
    /\ local.about = "attach" /\ Room(1)
    /\ Ask(local, Plus(calls, Call("process", [list |-> local.attached, new |-> Accepted(local.attached, files)])))

\* A slip in FilesRead: the files join the list as it is now.
FilesJoin(n) ==
    /\ Sent(n) /\ calls[n].op = "process"
    /\ Do([local EXCEPT !.attached = @ \o calls[n].arg.new], Minus(calls, n))

\* onAttachmentsChange replaces the list by the old one with the new files.
FilesRead(n) ==
    /\ Sent(n) /\ calls[n].op = "process"
    /\ LET a == calls[n].arg IN
       Do(IF a.new = <<>> THEN local ELSE [local EXCEPT !.attached = a.list \o a.new], Minus(calls, n))
removeAttachment(k) ==
    /\ local.about = "attach" /\ k \in DOMAIN local.attached
    /\ Do([local EXCEPT !.attached = RemoveAt(@, k)], calls)
SendAttached ==
    /\ local.about = "attach" /\ local.attached # <<>>
    /\ Do([local EXCEPT !.sent = local.attached, !.attached = <<>>], calls)

-----------------------------------------------------------------------------
(* image-generator.tsx *)
canEdit(m) == ImageModels[m].edit
activeMode == IF local.model # None /\ canEdit(local.model) THEN local.mode ELSE "generate"

ModelsArrive(n) ==
    /\ Sent(n) /\ calls[n].op = "models"
    /\ \E first \in DOMAIN ImageModels \cup {None} : Do([local EXCEPT !.model = first], Minus(calls, n))

\* What of the pictures the next model takes; the mask is kept if it takes masks.
Compatible(caps, images) ==
    LET takes(kept, f) == f.type \in caps.formats /\ f.size <= caps.each /\ decodedBytes(kept) + f.size <= caps.total
        kept[k \in 0..Len(images)] == IF k = 0 THEN <<>>
                                      ELSE IF takes(kept[k - 1], images[k]) THEN Append(kept[k - 1], images[k])
                                      ELSE kept[k - 1]
    IN  FirstOf(kept[Len(images)], caps.references)
handleModelChange(m) ==
    /\ local.about = "image" /\ local.model \notin {None, m}
    /\ Do([local EXCEPT !.model = m, !.mode = IF canEdit(m) THEN @ ELSE "generate",
                        !.mask = IF ImageModels[m].mask THEN @ ELSE None,
                        !.images = Compatible(ImageModels[m], @)], calls)
setMode(mode) ==
    /\ local.about = "image" /\ local.model # None /\ canEdit(local.model) /\ local.mode # mode
    /\ Do([local EXCEPT !.mode = mode, !.results = FALSE], calls)

\* One reader for each file; it keeps to the number of its model's references.
Readers(op, files) ==
    LET reads(f) == f.type \in Caps.formats /\ f.size <= Caps.each
        open[k \in 0..Len(files)] ==
            IF k = 0 THEN calls
            ELSE IF reads(files[k]) THEN Plus(open[k - 1], Call(op, [file |-> files[k], limit |-> Caps.references]))
            ELSE open[k - 1]
    IN  open[Len(files)]
handleFilePick(files) ==
    /\ local.about = "image" /\ activeMode = "edit" /\ Len(local.images) < Caps.references /\ Room(Len(files))
    /\ Ask(local, Readers("picture", FirstOf(files, Caps.references - Len(local.images))))
handlePaste(files) ==
    /\ local.about = "image" /\ activeMode = "edit" /\ Room(Len(files))
    /\ Ask(local, Readers("picture", files))
handleMaskPick(f) ==
    /\ local.about = "image" /\ activeMode = "edit" /\ Caps.mask /\ local.mask = None /\ Room(1)
    /\ Ask(local, Readers("mask", <<f>>))
PictureRead(n) ==
    /\ Sent(n)
    /\ LET f == calls[n].arg.file IN
       \/ /\ calls[n].op = "picture"
          /\ Do([local EXCEPT !.images = FirstOf(Append(@, f), calls[n].arg.limit)], Minus(calls, n))
       \/ /\ calls[n].op = "mask"
          /\ Do([local EXCEPT !.mask = f], Minus(calls, n))
removeImage(k) ==
    /\ local.about = "image" /\ activeMode = "edit" /\ k \in DOMAIN local.images
    /\ Do([local EXCEPT !.images = RemoveAt(@, k)], calls)

MaskOf == IF Caps.mask /\ local.mask # None THEN <<local.mask>> ELSE <<>>
ImageRequest == [model |-> local.model, mode |-> activeMode,
                 images |-> IF activeMode = "edit" THEN local.images ELSE <<>>, mask |-> MaskOf]
Generate ==
    /\ Room(1)
    /\ Ask([local EXCEPT !.generating = TRUE, !.results = FALSE], Plus(calls, Call("image", ImageRequest)))

handleGenerate ==
    /\ local.about = "image" /\ ~local.generating /\ local.model # None
    /\ activeMode = "edit" =>
          /\ Len(local.images) \in 1..Caps.references
          /\ decodedBytes(local.images \o MaskOf) <= Caps.total
    /\ Generate
ImageAnswers(n) ==
    /\ Sent(n) /\ calls[n].op = "image"
    /\ \E ok \in BOOLEAN : Do([local EXCEPT !.generating = FALSE, !.results = ok], Minus(calls, n))
clearImages ==
    /\ local.about = "image" /\ ~local.generating
    /\ Do([local EXCEPT !.images = <<>>, !.mask = None, !.results = FALSE], calls)

PicturesAnswer(n) == FilesRead(n) \/ ModelsArrive(n) \/ PictureRead(n) \/ ImageAnswers(n)
PicturesNext ==
    \/ SendAttached \/ handleGenerate \/ clearImages
    \/ \E files \in Picks : AttachFiles(files) \/ handleFilePick(files) \/ handlePaste(files)
    \/ \E f \in Files : handleMaskPick(f)
    \/ \E k \in 1..MaxAttachments : removeAttachment(k) \/ removeImage(k)
    \/ \E m \in DOMAIN ImageModels : handleModelChange(m)
    \/ \E mode \in {"generate", "edit"} : setMode(mode)
    \/ \E n \in DOMAIN calls : PicturesAnswer(n)

-----------------------------------------------------------------------------
\* Whatever is removed, sent, or read late: the pictures of a prompt keep
\* within the limits on their number and total size, and an edit request names
\* pictures that its model takes in number and in all, and a mask only if it
\* takes masks, though the pictures may have been picked for another model.
\* (The format and the size of each are tested when it is picked, and here not.)
PicturesFit ==
    screen = "pictures" =>
        /\ local.about = "attach" =>
              \A fs \in {local.attached, local.sent} : Len(fs) <= MaxAttachments /\ decodedBytes(fs) <= MaxTotalSize
        /\ \A n \in Waiting("image") :
              LET r == calls[n].arg
                  caps == ImageModels[r.model] IN
              r.mode = "edit" =>
                  /\ caps.edit
                  /\ Len(r.images) \in 1..caps.references
                  /\ decodedBytes(r.images \o r.mask) <= caps.total
                  /\ r.mask # <<>> => caps.mask
=============================================================================

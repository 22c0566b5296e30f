---------------------------- MODULE ImagePipeline ----------------------------
(***************************************************************************)
(* One attachment through one worker: convertAttachment and download in    *)
(* internal/bot, then Processor.Process in internal/imageproc (decode,     *)
(* colours, format, resize, encode within the limits).                     *)
(*                                                                         *)
(* A file is its length; an image is its displayed sides, its input        *)
(* format, whether it has an alpha channel and whether libvips can read    *)
(* it.  libvips decides how many bytes an encode takes: here only whether  *)
(* they fit the limit, chosen at each encode, so nothing is assumed about  *)
(* how sizes vary with the quality.  The context may end at any moment;    *)
(* it is seen where the code looks at it.                                  *)
(***************************************************************************)
EXTENDS Integers, FiniteSets

CONSTANTS
  Lengths,     \* the lengths in bytes a file can have or be said to have
  MaxInput,    \* settings.MaxInputFileSize
  MaxPixels,   \* Processor.maxInputPixels
  Images,      \* the displayed sides <<width, height>> an input can have
  Boxes,       \* the bounds <<MaxWidth, MaxHeight>> a guild can configure
  Qualities,   \* the JPEG qualities a guild can configure
  MinQuality,  \* MinJPEGQuality
  MinSide,     \* MinimumDimension
  MaxAttempts  \* maxResizeAttempts

Sides == Nat \X Nat

ASSUME PipelineAssumption ==
  /\ Lengths \subseteq Nat
  /\ MaxInput \in Nat /\ MaxPixels \in Nat
  /\ Images \subseteq (Nat \ {0}) \X (Nat \ {0})
  /\ Boxes \subseteq (Nat \ {0}) \X (Nat \ {0})
  /\ Qualities \subseteq 1..100
  /\ MinQuality \in 1..100
  /\ MinSide \in Nat
  /\ MaxAttempts \in Nat \ {0}

VARIABLES
  pc,      \* where the worker stands
  ctx,     \* "live", "deadline" once it timed out, "cancelled" at shutdown
  opts,    \* the guild's Options
  file,    \* what download returned: its length, and that of the body
  input,   \* what the bytes decode to
  size,    \* the sides <<w, h>> of the current attempt
  alpha,   \* img.HasAlpha() by now
  format,  \* the output format
  attempt, \* the counter of the shrink loop
  search,  \* the encode in progress: its stage, the bounds lo and hi, the
           \* quality of the best data so far, the qualities that were too big
  outcome  \* the answer: "ok" or the class userMessage tells the user

vars == <<pc, ctx, opts, file, input, size, alpha, format, attempt, search,
          outcome>>

loopVars == <<size, format, attempt, search>>

Option == [box : Boxes, limited : BOOLEAN, quality : Qualities,
           preserve : BOOLEAN]
Kind == {"unsupported", "lossless", "lossy"}
Input == [size : Sides, kind : Kind, alpha : BOOLEAN, readable : BOOLEAN]
Stage == {"png", "first", "min", "mid"}
Search == [stage : Stage, lo : 0..100, hi : 0..100, best : 0..100,
           over : SUBSET (0..100)]
Class == {"none", "ok", "unsupported", "tooLarge", "decode", "sizeLimit",
          "download", "timeout", "other"}

NoFile == [got |-> 0, body |-> 0]
NoInput == [size |-> <<0, 0>>, kind |-> "unsupported", alpha |-> FALSE,
            readable |-> FALSE]
NoSearch == [stage |-> "first", lo |-> 0, hi |-> 0, best |-> 0, over |-> {}]

TypeOK ==
  /\ pc \in {"report", "request", "body", "decode", "normalise", "resize",
             "encode", "exporting", "done"}
  /\ ctx \in {"live", "deadline", "cancelled"}
  /\ opts \in Option
  /\ file \in [got : Nat, body : Nat]
  /\ input \in Input
  /\ size \in Sides /\ alpha \in BOOLEAN
  /\ format \in {"jpeg", "png"}
  /\ attempt \in 1..MaxAttempts
  /\ search \in Search
  /\ outcome \in Class
  /\ outcome = "none" <=> pc # "done"

Init ==
  /\ pc = "report" /\ ctx = "live"
  /\ opts \in Option
  /\ file = NoFile /\ input = NoInput
  /\ size = <<0, 0>> /\ alpha = FALSE /\ format = "jpeg"
  /\ attempt = 1 /\ search = NoSearch
  /\ outcome = "none"

-----------------------------------------------------------------------------
(* Ending *)

Answer(class) == pc' = "done" /\ outcome' = class

\* The class of ctx.Err(): a deadline has a message of its own, a
\* cancellation gets the general one.
ContextClass == IF ctx = "deadline" THEN "timeout" ELSE "other"

Expire ==
  /\ pc # "done" /\ ctx = "live"
  /\ ctx' \in {"deadline", "cancelled"}
  /\ UNCHANGED <<pc, opts, file, input, size, alpha, format, attempt, search,
                 outcome>>

-----------------------------------------------------------------------------
(* convertAttachment and download *)

CheckReported ==
  /\ pc = "report"
  /\ \E reported \in Lengths :
       IF reported > MaxInput
       THEN Answer("tooLarge")
       ELSE pc' = "request" /\ UNCHANGED outcome
  /\ UNCHANGED <<ctx, opts, file, input, alpha, loopVars>>

\* client.Do: it fails (URL, network, context, a status other than 200), or
\* announces a length that is too large, or hands out a body: one of an
\* announced length within the limit, or one of any length, unannounced.
Request ==
  /\ pc = "request"
  /\ \/ Answer("download") /\ UNCHANGED file
     \/ /\ \E announced \in Lengths : announced > MaxInput
        /\ Answer("tooLarge") /\ UNCHANGED file
     \/ \E body \in Lengths :
          /\ file' = [got |-> 0, body |-> body]
          /\ pc' = "body" /\ UNCHANGED outcome
  /\ UNCHANGED <<ctx, opts, input, alpha, loopVars>>

\* Mutant: io.LimitReader(resp.Body, maxBytes) cannot tell a longer file.
ReadLimitExact == MaxInput

\* How many bytes io.LimitReader lets through.
ReadLimit == MaxInput + 1

Least(a, b) == IF a <= b THEN a ELSE b

ReadBody ==
  /\ pc = "body"
  /\ \/ Answer("download") /\ UNCHANGED file
     \/ LET got == Least(file.body, ReadLimit) IN
        /\ file' = [file EXCEPT !.got = got]
        /\ IF got > MaxInput
           THEN Answer("tooLarge")
           ELSE pc' = "decode" /\ UNCHANGED outcome
  /\ UNCHANGED <<ctx, opts, input, alpha, loopVars>>

-----------------------------------------------------------------------------
(* Process, up to the shrink loop *)

\* The class of what decode finds, in its order: sniff the format, open the
\* image, count its pixels, apply the orientation (openable and orientable
\* tell whether libvips can).
DecodeClass(image, openable, orientable) ==
  IF image.kind = "unsupported" THEN "unsupported"
  ELSE IF ~openable THEN "decode"
  ELSE IF image.size[1] * image.size[2] > MaxPixels THEN "tooLarge"
  ELSE IF ~orientable THEN "decode"
  ELSE "ok"

Decode ==
  /\ pc = "decode"
  /\ \E image \in [size : Images, kind : Kind, alpha : BOOLEAN,
                   readable : BOOLEAN], openable, orientable \in BOOLEAN :
       LET class == DecodeClass(image, openable, orientable) IN
       /\ image.readable => openable /\ orientable
       /\ input' = image
       /\ alpha' = image.alpha
       /\ IF class # "ok" THEN Answer(class)
          ELSE IF ctx # "live" THEN Answer(ContextClass)
          ELSE pc' = "normalise" /\ UNCHANGED outcome
  /\ UNCHANGED <<ctx, opts, file, loopVars>>

KeepAlpha == input.alpha /\ opts.preserve

ChooseFormat(image, preserve) ==
  IF image.alpha
  THEN IF preserve THEN "png" ELSE "jpeg"
  ELSE IF image.kind = "lossless" THEN "png" ELSE "jpeg"

\* The integers math.Round can return for n/d: on a tie the float may lie on
\* either side.
Rounded(n, d) == {k \in n \div d .. n \div d + 1 :
                    2 * (n - k * d) <= d /\ 2 * (k * d - n) <= d}

\* Mutant: no max(1, ...).
AsRounded(k) == k

AtLeastOne(k) == IF k < 1 THEN 1 ELSE k

\* scaleDims for a scale n/d below one.
ScaleDims(s, n, d) ==
  {<<AtLeastOne(w), AtLeastOne(h)>> :
     w \in Rounded(s[1] * n, d), h \in Rounded(s[2] * n, d)}

\* The scale is the least of maxW/w, maxH/h and 1.
FitWithin(s, box) ==
  IF s[1] <= box[1] /\ s[2] <= box[2] THEN {s}
  ELSE IF box[1] * s[2] <= box[2] * s[1] THEN ScaleDims(s, box[1], s[1])
  ELSE ScaleDims(s, box[2], s[2])

\* normalizeColour (a broken profile alone does not fail it), chooseFormat,
\* Flatten, and the first dimensions.
Normalise ==
  /\ pc = "normalise"
  /\ \/ /\ ~input.readable /\ Answer("decode")
        /\ UNCHANGED <<alpha, loopVars>>
     \/ /\ alpha /\ ~KeepAlpha /\ Answer("other") \* Flatten failed
        /\ UNCHANGED <<alpha, loopVars>>
     \/ /\ format' = ChooseFormat(input, opts.preserve)
        /\ alpha' = KeepAlpha
        /\ size' \in FitWithin(input.size, opts.box)
        /\ attempt' = 1 /\ UNCHANGED search
        /\ pc' = "resize" /\ UNCHANGED outcome
  /\ UNCHANGED <<ctx, opts, file, input>>

-----------------------------------------------------------------------------
(* encodeWithinLimits, encodeOnce, exportJPEGWithin, exportCancellable *)

\* ctx.Err(), then resizeTo from the original.
Resize ==
  /\ pc = "resize"
  /\ \/ ctx # "live" /\ Answer(ContextClass) /\ UNCHANGED search
     \/ ctx = "live" /\ Answer("other") /\ UNCHANGED search
     \/ /\ ctx = "live"
        /\ search' = [NoSearch EXCEPT
                        !.stage = IF format = "png" THEN "png" ELSE "first"]
        /\ pc' = "encode" /\ UNCHANGED outcome
  /\ UNCHANGED <<ctx, opts, file, input, alpha, size, format, attempt>>

\* The first check of exportCancellable.
StartExport ==
  /\ pc = "encode"
  /\ IF ctx # "live" THEN Answer(ContextClass)
     ELSE pc' = "exporting" /\ UNCHANGED outcome
  /\ UNCHANGED <<ctx, opts, file, input, alpha, loopVars>>

\* Mutant: what libvips says comes before the context.
ExportFailureFirst(failed) ==
  IF failed THEN "decode" ELSE IF ctx # "live" THEN ContextClass ELSE "ok"

\* What exportCancellable makes of the end of an export.
ExportClass(failed) ==
  IF ctx # "live" THEN ContextClass ELSE IF failed THEN "decode" ELSE "ok"

\* libvips evaluates the pixels here: it fails on pixels it cannot read, and
\* when the kill flag was set.
ExportFails ==
  /\ pc = "exporting"
  /\ \E failed \in BOOLEAN :
       /\ failed => ~input.readable \/ ctx # "live"
       /\ ExportClass(failed) # "ok"
       /\ Answer(ExportClass(failed))
  /\ UNCHANGED <<ctx, opts, file, input, alpha, loopVars>>

\* The quality the export in progress uses.
Quality ==
  IF search.stage = "first" THEN opts.quality
  ELSE IF search.stage = "min" THEN MinQuality
  ELSE (search.lo + search.hi) \div 2

\* What x * f can be rounded to, for a factor f between minShrink and
\* maxShrink.
ShrunkSide(x) == x \div 2 .. (9 * x + 5) \div 10

\* One factor rounds s to p: from x to k lead the factors from (2k - 1) / 2x
\* to (2k + 1) / 2x, and those of the two sides overlap.
SameFactor(s, p) ==
  /\ (2 * p[1] - 1) * s[2] <= (2 * p[2] + 1) * s[1]
  /\ (2 * p[2] - 1) * s[1] <= (2 * p[1] + 1) * s[2]

\* scaleDims for every factor in [1/2, 9/10] at once: it follows from the
\* number of bytes, which can be any (ImagePipelineProofs!AnyFactor).
Shrunk(s) ==
  {<<AtLeastOne(p[1]), AtLeastOne(p[2])>> :
     p \in {q \in ShrunkSide(s[1]) \X ShrunkSide(s[2]) : SameFactor(s, q)}}

\* Mutant: the counter of the shrink loop is never compared.
TooBigForever ==
  \E s \in Shrunk(size) :
    IF s[1] < MinSide /\ s[2] < MinSide
    THEN Answer("sizeLimit") /\ UNCHANGED <<size, attempt>>
    ELSE /\ size' = s /\ attempt' = attempt + 1
         /\ pc' = "resize" /\ UNCHANGED outcome

\* encodeOnce came back above the limit: give up, or shrink and try again.
TooBig ==
  \/ /\ attempt >= MaxAttempts
     /\ Answer("sizeLimit") /\ UNCHANGED <<size, attempt>>
  \/ /\ attempt < MaxAttempts
     /\ \E s \in Shrunk(size) :
          IF s[1] < MinSide /\ s[2] < MinSide
          THEN Answer("sizeLimit") /\ UNCHANGED <<size, attempt>>
          ELSE /\ size' = s /\ attempt' = attempt + 1
               /\ pc' = "resize" /\ UNCHANGED outcome

\* Mutant: a quality that was too big stays inside the interval.
NarrowNever(fits) ==
  IF fits THEN [search EXCEPT !.best = Quality, !.lo = Quality + 1]
  ELSE [search EXCEPT !.hi = Quality, !.over = @ \cup {Quality}]

\* Mutant: the quality next to one that was too big is never tried.
NarrowTooFar(fits) ==
  IF fits THEN [search EXCEPT !.best = Quality, !.lo = Quality + 1]
  ELSE [search EXCEPT !.hi = Quality - 2, !.over = @ \cup {Quality}]

\* One round of the binary search.
Narrow(fits) ==
  IF fits THEN [search EXCEPT !.best = Quality, !.lo = Quality + 1]
  ELSE [search EXCEPT !.hi = Quality - 1, !.over = @ \cup {Quality}]

Continue(next) == search' = next /\ pc' = "encode" /\ UNCHANGED outcome

\* The loop over lo and hi goes on, or returns the best data.
SearchOn(next) ==
  IF next.lo <= next.hi
  THEN Continue([next EXCEPT !.stage = "mid"])
  ELSE search' = next /\ Answer("ok")

ExportFits ==
  /\ pc = "exporting" /\ ExportClass(FALSE) = "ok"
  /\ \/ search.stage = "png" /\ Answer("ok") /\ UNCHANGED search
     \/ /\ search.stage = "first"
        /\ search' = [search EXCEPT !.best = Quality] /\ Answer("ok")
     \/ /\ search.stage = "min"
        /\ SearchOn([search EXCEPT !.best = Quality, !.lo = MinQuality + 1,
                                   !.hi = opts.quality - 1])
     \/ search.stage = "mid" /\ SearchOn(Narrow(TRUE))
  /\ UNCHANGED <<ctx, opts, file, input, alpha, size, format, attempt>>

\* A PNG that is too big stays one to keep its alpha channel, or becomes a
\* JPEG for good.
PngOver ==
  /\ search.stage = "png"
  /\ IF KeepAlpha
     THEN TooBig /\ UNCHANGED <<format, search>>
     ELSE /\ Continue([search EXCEPT !.stage = "first"])
          /\ format' = "jpeg" /\ UNCHANGED <<size, attempt>>

\* exportJPEGWithin: the configured quality was too big, or the lowest one.
JpegOver ==
  LET next == [search EXCEPT !.over = @ \cup {Quality}] IN
  /\ search.stage \in {"first", "min"}
  /\ IF search.stage = "first" /\ opts.quality > MinQuality
     THEN /\ Continue([next EXCEPT !.stage = "min"])
          /\ UNCHANGED <<size, attempt>>
     ELSE search' = next /\ TooBig
  /\ UNCHANGED format

SearchOver ==
  /\ search.stage = "mid"
  /\ SearchOn(Narrow(FALSE))
  /\ UNCHANGED <<size, attempt, format>>

ExportOver ==
  /\ pc = "exporting" /\ ExportClass(FALSE) = "ok"
  /\ opts.limited
  /\ PngOver \/ JpegOver \/ SearchOver
  /\ UNCHANGED <<ctx, opts, file, input, alpha>>

Step ==
  \/ CheckReported \/ Request \/ ReadBody
  \/ Decode \/ Normalise
  \/ Resize \/ StartExport \/ ExportFails \/ ExportFits \/ ExportOver

Finished == pc = "done" /\ UNCHANGED vars

Next == Step \/ Expire \/ Finished

Spec == Init /\ [][Next]_vars

\* Every step ends: client.Do and ReadAll at the latest with the timeout of
\* the client (download.go:38), an export when libvips is done or killed.
FairSpec == Spec /\ WF_vars(Step)

-----------------------------------------------------------------------------
(* Properties *)

\* What is decoded is the whole file and within the limit: a longer body is
\* never cut off and converted as if it were complete (download.go:69-75).
WholeFileOnly ==
  pc \in {"decode", "normalise", "resize", "encode", "exporting"}
    => file.got = file.body /\ file.got <= MaxInput

\* The sides of an attempt are never zero, never above the input's or the
\* guild's, and close to the input's proportions: rounding is repeated on
\* sides already rounded, so each is off by at most five pixels. An image
\* that was shrunk for the file size keeps a side of MinSide
\* (resize.go:11, limits.go:4, encoder.go:49-53).
SizeAsConfigured ==
  pc \in {"resize", "encode", "exporting"} \/ outcome = "ok"
    => LET w == size[1] h == size[2]
           inW == input.size[1] inH == input.size[2] IN
       /\ w >= 1 /\ h >= 1
       /\ w <= inW /\ h <= inH
       /\ w <= opts.box[1] /\ h <= opts.box[2]
       /\ w * inH - h * inW <= 5 * (inW + inH)
       /\ h * inW - w * inH <= 5 * (inW + inH)
       /\ attempt > 1 => w >= MinSide \/ h >= MinSide

\* The image that is sent is what the guild asked for: its alpha channel is
\* there exactly when it is kept, and then as a PNG; a JPEG uses a quality up
\* to the configured one, not below the floor of the search, and one more
\* would not have fitted (encoder.go:72, processor.go:107).
ResultAsConfigured ==
  outcome = "ok"
    => /\ alpha = KeepAlpha
       /\ alpha => format = "png"
       /\ format = "png" => alpha \/ input.kind = "lossless"
       /\ format = "jpeg" =>
            /\ search.best <= opts.quality
            /\ search.best >= Least(MinQuality, opts.quality)
            /\ search.best \notin search.over
            /\ search.best = opts.quality \/ search.best + 1 \in search.over

\* The user is told what went wrong: a failed decode only for an image that
\* cannot be read, a timeout only past a deadline, the file-size limit only
\* when one is set and an image with the lowest quality allowed, or a PNG
\* that has to keep its alpha, was above it (convert.go:29, encoder.go:130).
NoFalseBlame ==
  /\ outcome = "decode" => ~input.readable
  /\ outcome = "timeout" => ctx = "deadline"
  /\ outcome = "sizeLimit" =>
       /\ opts.limited
       /\ IF format = "png" THEN KeepAlpha
          ELSE Least(MinQuality, opts.quality) \in search.over

\* Whatever the encodes return, the worker gets rid of the image.
Terminates == <>(pc = "done")

=============================================================================

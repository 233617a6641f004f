------------------------------- MODULE Scanner -------------------------------
(***************************************************************************)
(* The scanner pipeline (aex-scanner) as pure operators.  No scanner of    *)
(* the pipeline awaits anything, so join_all over them is one step of its  *)
(* caller; DataPlane calls Scan between reading a blob and caching the     *)
(* verdict.  A payload is what the four scanners can tell of it: its size, *)
(* the format its first bytes announce, and whether the EICAR string or an *)
(* injection pattern occurs in it.                                         *)
(***************************************************************************)
EXTENDS Naturals, Policy

\* ScanInput: the bytes with the declared mime.  magic is the entry of SIGS
\* the bytes start with, "riff" for a RIFF file that is not WebP.
Payload == [size : Nat, magic : {"none", "pdf", "webp", "riff", "executable"},
            mime : {"octet_stream", "text", "pdf", "webp", "executable"},
            eicar : BOOLEAN, injection : BOOLEAN]

-----------------------------------------------------------------------------
(* The scanners *)

\* Faulty variant: a payload of exactly the limit is refused too.
SizeLimitStrict(max_bytes, input) ==
    IF input.size >= max_bytes THEN "malicious" ELSE "clean"

SizeLimitScanner(max_bytes, input) ==
    IF input.size > max_bytes THEN "malicious" ELSE "clean"

\* SIGS has a signature for these; octet-stream and text have none.
HasKnownSignature(mime) == mime \in {"pdf", "webp", "executable"}

\* RIFF without WEBP at offset 8 matches no entry.
DetectMime(input) == IF input.magic = "riff" THEN "none" ELSE input.magic

MimesCompatible(declared, detected) ==
    declared = detected \/ declared = "octet_stream"

MagicByteScanner(input) ==
    LET detected == DetectMime(input) IN
    IF detected # "none"
    THEN IF MimesCompatible(input.mime, detected) THEN "clean" ELSE "suspicious"
    ELSE IF HasKnownSignature(input.mime) THEN "suspicious" ELSE "clean"

EicarScanner(input) == IF input.eicar THEN "malicious" ELSE "clean"

RegexInjectionScanner(input) == IF input.injection THEN "suspicious" ELSE "clean"

-----------------------------------------------------------------------------
(* The pipeline *)

Verdicts(max_bytes, input) ==
    << SizeLimitScanner(max_bytes, input), MagicByteScanner(input),
       EicarScanner(input), RegexInjectionScanner(input) >>

\* Faulty variant: a later verdict replaces an earlier one of another kind.
MergeLast(overall, result) == IF result = "clean" THEN overall ELSE result

\* One round of aggregate's loop.
Merge(overall, result) ==
    IF "malicious" \in {overall, result} THEN "malicious"
    ELSE IF "error" \in {overall, result} THEN "error"
    ELSE IF "suspicious" \in {overall, result} THEN "suspicious"
    ELSE "clean"

\* ScanPipeline::scan with the scanners main.rs installs, in their order.
Scan(max_bytes, input) ==
    LET v == Verdicts(max_bytes, input)
    IN  Merge(Merge(Merge(Merge("clean", v[1]), v[2]), v[3]), v[4])

\* PipelineVerdict::is_blocking
IsBlocking(overall) == overall = "malicious"
=============================================================================

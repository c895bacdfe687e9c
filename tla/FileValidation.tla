--------------------------- MODULE FileValidation ---------------------------
(***************************************************************************)
(* What the attachments module accepts as a file                           *)
(* (src/modules/attachments/services/file-validation.service.ts).          *)
(*                                                                         *)
(* A file is what the client declares - type, size in MB, what is wrong    *)
(* with its name - and its content: the type its first bytes show (None    *)
(* when they show none) and its bytes.  A byte is the length of the UTF-8  *)
(* sequence it starts: 1 for ASCII, 2..4 for a lead byte, 0 for a          *)
(* continuation byte; Zero is the byte 0 and Invalid the byte 255.          *)
(* Warnings refuse nothing and are left out.                               *)
(***************************************************************************)
EXTENDS Naturals, Sequences

CONSTANT None

Zero == 5
Invalid == 6

Images == {"image/jpeg", "image/jpg", "image/png"}
Videos == {"video/mp4", "video/x-msvideo"}
Texts == {"text/plain", "text/csv", "application/json"}
LegacyOffice == {"application/msword", "application/vnd.ms-excel"}
OpenXml == {"application/vnd.openxmlformats-officedocument.wordprocessingml.document"}
Documents == {"application/pdf"} \cup Texts \cup LegacyOffice \cup OpenXml
Archives == {"application/zip"}
AllowedTypes == Images \cup Videos \cup Documents \cup Archives

\* Declared names of a type that content detection knows under another one.
Alias(mimetype) ==
  CASE mimetype = "image/jpg" -> "image/jpeg"
    [] mimetype = "video/x-msvideo" -> "video/vnd.avi"
    [] OTHER -> mimetype

FileCategory(mimetype) ==
  CASE mimetype \in Images -> "image"
    [] mimetype \in Videos -> "video"
    [] mimetype \in Documents -> "document"
    [] mimetype \in Archives -> "archive"
    [] OTHER -> "default"

MaxSizes == [image |-> 5, video |-> 100, document |-> 10, archive |-> 50, default |-> 10]

\* performSecurityChecks.
SafeName(flaws) == flaws \cap {"traversal", "null byte", "too long"} = {}

\* One of those that run something when they are opened.
DangerousExtension(flaws) == "dangerous extension" \in flaws

ValidSize(file) == file.size > 0 /\ file.size <= MaxSizes[FileCategory(file.mimetype)]

\* validateDeclaredFile: before there is any content.
DeclaredValid(file) ==
  /\ file.mimetype \in AllowedTypes
  /\ SafeName(file.flaws) /\ ~DangerousExtension(file.flaws)
  /\ ValidSize(file)

-----------------------------------------------------------------------------
IsUtf8(bytes) ==
  /\ Invalid \notin {bytes[i] : i \in DOMAIN bytes}
  /\ \A i \in DOMAIN bytes :
       IF bytes[i] \in 2..4
       THEN /\ i + bytes[i] - 1 <= Len(bytes)
            /\ \A j \in (i + 1)..(i + bytes[i] - 1) : bytes[j] = 0
       ELSE bytes[i] = 0 =>
              \E k \in 1..3 : i - k >= 1 /\ bytes[i - k] \in (k + 1)..4
                              /\ \A j \in (i - k + 1)..i : bytes[j] = 0

\* Mutant: the head of a file is taken as it was cut.
WithPartialUtf8Tail(bytes) == bytes

\* Drops a sequence the cut left incomplete: it looks back at most three bytes for
\* the byte that starts the last sequence.
WithoutPartialUtf8Tail(bytes) ==
  LET starts == {back \in 1..3 : back <= Len(bytes) /\ bytes[Len(bytes) + 1 - back] # 0}
      last == CHOOSE back \in starts : \A b \in starts : back <= b
      expected == IF bytes[Len(bytes) + 1 - last] \in 1..4
                  THEN bytes[Len(bytes) + 1 - last]
                  ELSE IF bytes[Len(bytes) + 1 - last] = Invalid THEN 4 ELSE 1
  IN  IF starts # {} /\ expected > last
      THEN SubSeq(bytes, 1, Len(bytes) - last)
      ELSE bytes

\* verifyContentMatchesDeclaredType.
ContentMatches(mimetype, content, truncated) ==
  LET declared == Alias(mimetype)
      text == IF truncated THEN WithoutPartialUtf8Tail(content.bytes) ELSE content.bytes
  IN  IF declared \in Texts
      THEN /\ content.detected = None
           /\ IsUtf8(text)
           /\ \A i \in DOMAIN text : text[i] # Zero
      ELSE \/ content.detected = declared
           \/ content.detected = "application/x-cfb" /\ declared \in LegacyOffice
           \/ content.detected = "application/zip" /\ declared \in OpenXml

\* validateFile; the type it returns is the declared one by its detected name.
ContentValid(file, content, truncated) ==
  DeclaredValid(file) /\ ContentMatches(file.mimetype, content, truncated)

\* What readHead returns of an object.
Beginning(content, n) ==
  [content EXCEPT !.bytes = SubSeq(@, 1, IF Len(@) < n THEN Len(@) ELSE n)]
=============================================================================

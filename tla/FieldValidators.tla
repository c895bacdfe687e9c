-------------------------- MODULE FieldValidators --------------------------
(***************************************************************************)
(* What the custom fields of a post type accept                            *)
(* (src/modules/post-types/services/field-validators).                     *)
(*                                                                         *)
(* A value is a record of its JSON type and what the validators can tell   *)
(* about it.  A string: its length, the length of its text without HTML    *)
(* tags (plain) and what sanitizing takes out of that (unsafe), the        *)
(* formats it has (forms), and what it reads as: a number, a day, a URL    *)
(* with some scheme - None when it does not.  An array: its items; like an *)
(* object, how deep it is; an object, what it says of a file.  The numbers *)
(* of number fields and of their rules are counted in thousandths, days    *)
(* from the first.  rules and options hold what is set.  A validator gives *)
(* the codes of the errors it finds.                                       *)
(***************************************************************************)
EXTENDS Integers, Sequences, FiniteSets, TLC

CONSTANTS None,
          Today,        \* a rule's day: that of the check
          NotANumber    \* a rule that should be a number and is not

String == [type |-> "string", text |-> "", length |-> 0, plain |-> 0, unsafe |-> 0,
           forms |-> {}, number |-> None, day |-> None, scheme |-> None]
Number(n) == [type |-> "number", number |-> n]
Flag(b) == [type |-> "boolean", flag |-> b]
NullValue == [type |-> "null"]
Array(items, depth) == [type |-> "array", items |-> items, depth |-> depth]
Object == [type |-> "object", depth |-> 1, url |-> None, mimeType |-> None, size |-> None,
           width |-> None, height |-> None]

When(broken, code) == IF broken THEN {code} ELSE {}

Has(settings, key) == key \in DOMAIN settings
\* Set to something JavaScript holds true.
Truthy(settings, key) == Has(settings, key) /\ settings[key] \in Int \ {0}
On(settings, key) == Has(settings, key) /\ settings[key]

\* A comparison with what is no number is false.
Less(m, n) == m # NotANumber /\ n # NotANumber /\ m < n

Expect(types, value, errors) == IF value.type \in types THEN errors ELSE {"INVALID_TYPE"}

-----------------------------------------------------------------------------
(* Text. *)

TooShort(def, length) ==
  When(Truthy(def.rules, "minLength") /\ Less(length, def.rules["minLength"]), "MIN_LENGTH")
TooLong(def, length) ==
  When(Truthy(def.rules, "maxLength") /\ Less(def.rules["maxLength"], length), "MAX_LENGTH")

\* A pattern is one of the forms.
ValidateText(def, value) == Expect({"string"}, value,
  TooShort(def, value.length) \cup TooLong(def, value.length)
    \cup When(Has(def.rules, "pattern") /\ def.rules["pattern"] \notin value.forms,
              "PATTERN_MISMATCH"))

ValidateWysiwyg(def, value) == Expect({"string"}, value,
  TooShort(def, value.plain) \cup TooLong(def, value.plain))

ValidateEmail(def, value) ==
  Expect({"string"}, value, When("email" \notin value.forms, "INVALID_EMAIL"))

EXECUTABLE_URL_PROTOCOLS == {"javascript", "data", "vbscript", "file"}

ValidateUrl(def, value) == Expect({"string"}, value,
  LET allowed == IF Has(def.rules, "protocol") THEN def.rules["protocol"]
                                               ELSE {"http", "https"}
  IN  IF value.scheme = None THEN {"INVALID_URL"}
      ELSE When(value.scheme \notin allowed \ EXECUTABLE_URL_PROTOCOLS, "INVALID_PROTOCOL"))

ValidateTel(def, value) ==
  LET form == IF Has(def.rules, "pattern") THEN def.rules["pattern"] ELSE "phone"
  IN  Expect({"string"}, value, When(form \notin value.forms, "INVALID_PHONE"))

ValidateCode(def, value) == Expect({"string"}, value, TooLong(def, value.length))

-----------------------------------------------------------------------------
(* Numbers: a string is the number it starts with. *)

OutOfRange(def, number) ==
  When(Has(def.rules, "min") /\ Less(number, def.rules["min"]), "MIN_VALUE")
    \cup When(Has(def.rules, "max") /\ Less(def.rules["max"], number), "MAX_VALUE")

IsNumber(value, errors) ==
  IF value.type \in {"number", "string"} /\ value.number # None THEN errors
  ELSE {"INVALID_TYPE"}

ValidateNumber(def, value) == IsNumber(value,
  OutOfRange(def, value.number)
    \cup When(On(def.rules, "integer") /\ value.number % 1000 # 0, "NOT_INTEGER")
    \cup When(Truthy(def.rules, "step") /\ value.number % def.rules["step"] # 0,
              "INVALID_STEP"))

DecimalPlaces(number) ==
  CASE number % 1000 = 0 -> 0
    [] number % 1000 # 0 /\ number % 100 = 0 -> 1
    [] number % 100 # 0 /\ number % 10 = 0 -> 2
    [] OTHER -> 3

ValidateCurrency(def, value) == IsNumber(value,
  LET decimals == IF Has(def.rules, "decimals") THEN def.rules["decimals"] ELSE 2
  IN  OutOfRange(def, value.number)
        \cup When(decimals < DecimalPlaces(value.number), "INVALID_DECIMALS"))

-----------------------------------------------------------------------------
(* Dates and times. *)

DayOf(day, today) == IF day = Today THEN today ELSE day

ValidateDate(def, value, today) == Expect({"string"}, value,
  IF value.day = None THEN {"INVALID_DATE"}
  ELSE When(Has(def.rules, "minDate") /\ value.day < DayOf(def.rules["minDate"], today),
            "MIN_DATE")
         \cup When(Has(def.rules, "maxDate") /\ value.day > DayOf(def.rules["maxDate"], today),
                   "MAX_DATE"))

ValidateTime(def, value) ==
  Expect({"string"}, value, When("time" \notin value.forms, "INVALID_TIME"))

-----------------------------------------------------------------------------
(* Choices. *)

ItemsOf(value) == {value.items[i] : i \in DOMAIN value.items}
ChoicesOf(def) == IF Has(def.options, "choices") THEN def.options["choices"] ELSE {}

ValidateCheckbox(def, value) == Expect({"boolean"}, value, {})

ValidateRadio(def, value) ==
  IF ChoicesOf(def) = {} THEN {"NO_CHOICES"}
  ELSE When(value \notin ChoicesOf(def), "INVALID_CHOICE")

FewerThanMin(def, count, code) ==
  When(Has(def.rules, "min") /\ Less(count, def.rules["min"]), code)
MoreThanMax(settings, key, count, code) ==
  When(Has(settings, key) /\ Less(settings[key], count), code)

ValidateMultiselect(def, value) == Expect({"array"}, value,
  When(ItemsOf(value) \ ChoicesOf(def) # {} /\ ~On(def.options, "allowOther"),
       "INVALID_CHOICE")
    \cup FewerThanMin(def, Len(value.items), "MIN_SELECTIONS")
    \cup MoreThanMax(def.rules, "max", Len(value.items), "MAX_SELECTIONS"))

-----------------------------------------------------------------------------
(* Files: a link, or an object with the link and what is declared. *)

IsHttpUrl(value) == value.type = "string" /\ value.scheme \in {"http", "https"}

Declared(def, file) ==
  (IF file.url = None THEN {"MISSING_FILE_URL"}
   ELSE When(~IsHttpUrl(file.url), "INVALID_FILE_URL"))
    \cup When(Has(def.options, "allowedTypes") /\ file.mimeType # None
                /\ file.mimeType \notin def.options["allowedTypes"], "INVALID_FILE_TYPE")
    \cup When(Truthy(def.options, "maxSize") /\ file.size # None
                /\ file.size > def.options["maxSize"], "FILE_TOO_LARGE")

\* An array has no url.
ValidateFile(def, value) == Expect({"string", "object", "array"}, value,
  CASE value.type = "string" -> When(~IsHttpUrl(value), "INVALID_FILE_URL")
    [] value.type = "object" -> Declared(def, value)
    [] value.type = "array" -> {"MISSING_FILE_URL"})

\* Both dimensions declared, and not zero.
Dimensions(def, image) ==
  IF image.type # "object" \/ {image.width, image.height} \cap {None, 0} # {} THEN {}
  ELSE When(\/ Truthy(def.options, "minWidth") /\ image.width < def.options["minWidth"]
            \/ Truthy(def.options, "minHeight") /\ image.height < def.options["minHeight"],
            "IMAGE_TOO_SMALL")
         \cup When(\/ Truthy(def.options, "maxWidth") /\ image.width > def.options["maxWidth"]
                   \/ Truthy(def.options, "maxHeight") /\ image.height > def.options["maxHeight"],
                   "IMAGE_TOO_LARGE")

ValidateImage(def, value) == ValidateFile(def, value) \cup Dimensions(def, value)

ValidateGallery(def, value) == Expect({"array"}, value,
  FewerThanMin(def, Len(value.items), "MIN_IMAGES")
    \cup MoreThanMax(def.options, "maxCount", Len(value.items), "MAX_IMAGES")
    \cup UNION {ValidateImage(def, image) : image \in ItemsOf(value)})

-----------------------------------------------------------------------------
(* References to other records, colours, and structures. *)

IsUuid(value) == value.type = "string" /\ "uuid" \in value.forms

ValidateRelation(def, value) ==
  IF On(def.options, "multiple")
  THEN Expect({"array"}, value, When(\E id \in ItemsOf(value) : ~IsUuid(id), "INVALID_UUID"))
  ELSE Expect({"string"}, value, When(~IsUuid(value), "INVALID_UUID"))

\* A format the validator does not know accepts every string.
ValidateColor(def, value) ==
  LET format == IF Has(def.options, "format") THEN def.options["format"] ELSE "hex"
      wanted == IF format = "rgba" THEN "rgb" ELSE format
  IN  Expect({"string"}, value,
             When(wanted \in {"hex", "rgb"} /\ wanted \notin value.forms, "INVALID_COLOR"))

ValidateJson(def, value) == Expect({"object", "array"}, value,
  When(Has(def.rules, "maxDepth") /\ Less(def.rules["maxDepth"], value.depth),
       "MAX_DEPTH_EXCEEDED"))

ValidateRepeater(def, value) == Expect({"array"}, value,
  FewerThanMin(def, Len(value.items), "MIN_ITEMS")
    \cup MoreThanMax(def.rules, "max", Len(value.items), "MAX_ITEMS")
    \cup When(\E item \in ItemsOf(value) : item.type \notin {"object", "array"},
              "INVALID_ITEM"))

ValidateGroup(def, value) == Expect({"object"}, value, {})

-----------------------------------------------------------------------------
(* FIELD_VALIDATORS, and the fields of an entry. *)

FieldTypes ==
  {"text", "textarea", "wysiwyg", "email", "url", "tel", "code", "number", "currency",
   "date", "datetime", "time", "checkbox", "radio", "select", "multiselect", "toggle",
   "file", "image", "gallery", "video", "relation", "user", "taxonomy", "color", "json",
   "repeater", "group"}

FieldErrors(def, value, today) ==
  LET type == def.fieldType IN
  CASE type \in {"text", "textarea"} -> ValidateText(def, value)
    [] type = "wysiwyg" -> ValidateWysiwyg(def, value)
    [] type = "email" -> ValidateEmail(def, value)
    [] type = "url" -> ValidateUrl(def, value)
    [] type = "tel" -> ValidateTel(def, value)
    [] type = "code" -> ValidateCode(def, value)
    [] type = "number" -> ValidateNumber(def, value)
    [] type = "currency" -> ValidateCurrency(def, value)
    [] type \in {"date", "datetime"} -> ValidateDate(def, value, today)
    [] type = "time" -> ValidateTime(def, value)
    [] type \in {"checkbox", "toggle"} -> ValidateCheckbox(def, value)
    [] type \in {"radio", "select"} -> ValidateRadio(def, value)
    [] type = "multiselect" -> ValidateMultiselect(def, value)
    [] type \in {"file", "video"} -> ValidateFile(def, value)
    [] type = "image" -> ValidateImage(def, value)
    [] type = "gallery" -> ValidateGallery(def, value)
    [] type \in {"relation", "user", "taxonomy"} -> ValidateRelation(def, value)
    [] type = "color" -> ValidateColor(def, value)
    [] type = "json" -> ValidateJson(def, value)
    [] type = "repeater" -> ValidateRepeater(def, value)
    [] type = "group" -> ValidateGroup(def, value)

\* validateFieldData: data maps the names it gives to values.
ValidData(defs, data, today) ==
  /\ DOMAIN data \subseteq {d.name : d \in defs}
  /\ \A d \in defs : /\ d.required => d.name \in DOMAIN data
                     /\ d.name \in DOMAIN data =>
                          \/ data[d.name] = NullValue /\ ~d.required
                          \/ FieldErrors(d, data[d.name], today) = {}

\* sanitizeRichTextFields, after the data was found valid.
Sanitize(value) == [value EXCEPT !.plain = @ - value.unsafe, !.unsafe = 0]

Sanitized(defs, data) ==
  LET rich == {d.name : d \in {e \in defs : e.fieldType = "wysiwyg"}}
  IN  [n \in DOMAIN data |->
         IF n \in rich /\ data[n].type = "string" THEN Sanitize(data[n]) ELSE data[n]]

\* validateFieldDefinition: the other rules are not looked at.
ValidDefinition(def) ==
  LET Numeric(keys) == \A k \in keys : Has(def.rules, k) => def.rules[k] # NotANumber
  IN  /\ def.fieldType \in {"text", "textarea"} => Numeric({"minLength", "maxLength"})
      /\ def.fieldType \in {"number", "currency"} => Numeric({"min", "max"})
      /\ def.fieldType \in {"select", "radio", "multiselect"} => ChoicesOf(def) # {}
=============================================================================

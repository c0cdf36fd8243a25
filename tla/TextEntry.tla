------------------------------ MODULE TextEntry ------------------------------
(***************************************************************************)
(* One text on its way from the box of a client to the field on screen:    *)
(* percent-escaped by the iOS client (the web page and the Mac client send *)
(* it as it is), cut out of the URL by processURL:, decoded by IOHIDTest:  *)
(* and a second time by its block, turned into key presses character by    *)
(* character, and read by a field with the US layout.  Timing and other    *)
(* commands are RemoteHelper's subject; here it is what becomes of the     *)
(* characters.                                                             *)
(***************************************************************************)
EXTENDS Integers, Sequences, FiniteSets, SequencesExt

CONSTANT Inputs   \* the texts users enter

ASSUME InputsAssumption == Inputs \subseteq Seq(STRING)

VARIABLES
    client,    \* "ios" or "raw"
    entered,   \* the text in the client's box
    carried,   \* the text as the next step finds it, or Nil
    keys,      \* key presses sent: pairs of a usage and whether shift was held
    field,     \* what the field shows
    stage

vars == <<client, entered, carried, keys, field, stage>>

Nil == <<"nil">>   \* NSString's nil: a sequence no step builds
-----------------------------------------------------------------------------
(* Percent escapes. *)

Lower == <<"a","b","c","d","e","f","g","h","i","j","k","l","m",
           "n","o","p","q","r","s","t","u","v","w","x","y","z">>
Upper == <<"A","B","C","D","E","F","G","H","I","J","K","L","M",
           "N","O","P","Q","R","S","T","U","V","W","X","Y","Z">>
Digit == <<"1","2","3","4","5","6","7","8","9","0">>

\* The 14 characters that stringByAddingPercentEscapesUsingEncoding: escapes; "=" is legal
\* in a URL and is not one of them.
EscapeTable ==
    [c \in {"%", " ", "\"", "<", ">", "[", "\\", "]", "^", "grave", "{", "|", "}", "#"} |->
        CASE c = "%" -> <<"2", "5">>  [] c = " " -> <<"2", "0">>  [] c = "\"" -> <<"2", "2">>
          [] c = "<" -> <<"3", "C">>  [] c = ">" -> <<"3", "E">>  [] c = "\\" -> <<"5", "C">>
          [] c = "[" -> <<"5", "B">>  [] c = "]" -> <<"5", "D">>
          [] c = "^" -> <<"5", "E">>  [] c = "grave" -> <<"6", "0">>  [] c = "{" -> <<"7", "B">>
          [] c = "|" -> <<"7", "C">>  [] c = "}" -> <<"7", "D">>  [] c = "#" -> <<"2", "3">>]

AddingPercentEscapes(text) ==
    FlattenSeq([i \in DOMAIN text |->
        IF text[i] \in DOMAIN EscapeTable THEN <<"%">> \o EscapeTable[text[i]] ELSE <<text[i]>>])

HexDigits == ToSet(Digit) \cup {Lower[i] : i \in 1..6} \cup {Upper[i] : i \in 1..6}

\* The character an escape stands for; the pairs of the inputs are all in this table.
Unescape(pair) ==
    CASE pair = <<"5", "2">> -> "R"
      [] pair = <<"5", "5">> -> "U"
      [] OTHER -> CHOOSE c \in DOMAIN EscapeTable : EscapeTable[c] = pair

\* stringByRemovingPercentEncoding: nil when a "%" does not start an escape, and for nil.
WellFormed(text) ==
    \A i \in DOMAIN text :
        text[i] = "%" => i + 2 <= Len(text) /\ {text[i + 1], text[i + 2]} \subseteq HexDigits

RemovingPercentEncoding(text) ==
    IF text = Nil \/ ~WellFormed(text) THEN Nil
    ELSE LET starts == {i \in DOMAIN text : text[i] = "%"}
             inside == {i + 1 : i \in starts} \cup {i + 2 : i \in starts}
             kept   == SetToSortSeq(DOMAIN text \ inside, <)
         IN  [n \in DOMAIN kept |->
                 IF kept[n] \in starts
                 THEN Unescape(SubSeq(text, kept[n] + 1, kept[n] + 2))
                 ELSE text[kept[n]]]
-----------------------------------------------------------------------------
(* Characters to keys.  The grave accent, which TLA+ strings cannot hold, is written "grave". *)

\* The keys with a symbol of their own: <<plain, shifted, usage>>.
SymbolKeys ==
    {<<"1", "!", 30>>, <<"2", "@", 31>>, <<"3", "#", 32>>, <<"4", "$", 33>>, <<"5", "%", 34>>,
     <<"6", "^", 35>>, <<"7", "&", 36>>, <<"8", "*", 37>>, <<"9", "(", 38>>, <<"0", ")", 39>>,
     <<"-", "_", 45>>, <<"=", "+", 46>>, <<"[", "{", 47>>, <<"]", "}", 48>>, <<"\\", "|", 49>>,
     <<";", ":", 51>>, <<"'", "\"", 52>>, <<"grave", "~", 53>>, <<",", "<", 54>>, <<".", ">", 55>>,
     <<"/", "?", 56>>, <<" ", " ", 44>>}

\* Slip for a mutant: the digits counted from "0", as ASCII does, not from "1".
HidUsageDigitsFromZero(c) ==
    CASE \E i \in 1..26 : c \in {Lower[i], Upper[i]} ->
            3 + CHOOSE i \in 1..26 : c \in {Lower[i], Upper[i]}
      [] c = "0" -> 30
      [] c # "0" /\ \E k \in SymbolKeys : c \in {k[1], k[2]} ->
            (CHOOSE k \in SymbolKeys : c \in {k[1], k[2]})[3]
      [] OTHER -> 0

\* Slip for a mutant: kUnknown is -1, and is sent like a usage.
HidUsageUnknown(c) ==
    CASE \E i \in 1..26 : c \in {Lower[i], Upper[i]} ->
            3 + CHOOSE i \in 1..26 : c \in {Lower[i], Upper[i]}
      [] \E k \in SymbolKeys : c \in {k[1], k[2]} ->
            (CHOOSE k \in SymbolKeys : c \in {k[1], k[2]})[3]
      [] OTHER -> -1

\* hidUsageCodeForCharacter: 0 for what has no key.
HidUsageCodeForCharacter(c) ==
    CASE \E i \in 1..26 : c \in {Lower[i], Upper[i]} ->
            3 + CHOOSE i \in 1..26 : c \in {Lower[i], Upper[i]}
      [] \E k \in SymbolKeys : c \in {k[1], k[2]} ->
            (CHOOSE k \in SymbolKeys : c \in {k[1], k[2]})[3]
      [] OTHER -> 0

\* Slip for a mutant: one character fewer in the literal.
ShiftedWithoutQuestionMark ==
    {"~", "!", "@", "#", "$", "%", "^", "&", "*", "(", ")", "_", "+", "}", "{", "<", ">", ":",
     "\\", "\""} \cup ToSet(Upper)

\* uppercaseSpecialSet: the literal of the code, with the upper case letters.
UppercaseSpecialSet ==
    {"~", "!", "@", "#", "$", "%", "^", "&", "*", "(", ")", "_", "+", "}", "{", "<", ">", ":",
     "\\", "\"", "?"} \cup ToSet(Upper)

\* The character a US keyboard enters for a key press.  Usage 0 enters nothing.
Entered(usage, shift) ==
    CASE usage \in 4..29 -> <<IF shift THEN Upper[usage - 3] ELSE Lower[usage - 3]>>
      [] \E k \in SymbolKeys : k[3] = usage ->
            LET key == CHOOSE k \in SymbolKeys : k[3] = usage
            IN  <<IF shift THEN key[2] ELSE key[1]>>
      [] OTHER -> <<>>
-----------------------------------------------------------------------------
\* What the other clients can send as it is; the rest curl and the browser change first.
SentUnchanged(text) ==
    WellFormed(text) /\ ToSet(text) \cap (DOMAIN EscapeTable \ {"%"}) = {}

Init ==
    /\ client \in {"ios", "raw"}
    /\ entered \in Inputs
    /\ client = "raw" => SentUnchanged(entered)
    /\ carried = Nil /\ keys = <<>> /\ field = <<>>
    /\ stage = "entered"

\* ViewController enterTextAction: escapes; the other clients do not.
Request ==
    /\ stage = "entered"
    /\ \/ client = "ios" /\ carried' = AddingPercentEscapes(entered)
       \/ client = "raw" /\ carried' = entered
    /\ stage' = "requested"
    /\ UNCHANGED <<client, entered, keys, field>>

\* processURL: the parts of the path between "=" signs; the second one is the value.
UpToEquals(text) ==
    LET ends == {i \in DOMAIN text : text[i] = "="}
    IN  IF ends = {} THEN text
        ELSE SubSeq(text, 1, (CHOOSE i \in ends : \A j \in ends : i <= j) - 1)

ProcessURL ==
    /\ stage = "requested"
    /\ carried' = UpToEquals(carried)
    /\ stage' = "posted"
    /\ UNCHANGED <<client, entered, keys, field>>

\* IOHIDTest: decodes at once ...
Strip ==
    /\ stage = "posted"
    /\ carried' = RemovingPercentEncoding(carried)
    /\ stage' = "stripped"
    /\ UNCHANGED <<client, entered, keys, field>>

\* ... and its block decodes again and sends the keys; a nil text has no characters.
SendKeys ==
    /\ stage = "stripped"
    /\ LET text == RemovingPercentEncoding(carried)
       IN  keys' = IF text = Nil THEN <<>>
                   ELSE [i \in DOMAIN text |-> <<HidUsageCodeForCharacter(text[i]),
                                                 text[i] \in UppercaseSpecialSet>>]
    /\ stage' = "sent"
    /\ UNCHANGED <<client, entered, carried, field>>

\* The focused process reads the keys.
ReadKeys ==
    /\ stage = "sent"
    /\ field' = FlattenSeq([i \in DOMAIN keys |-> Entered(keys[i][1], keys[i][2])])
    /\ stage' = "read"
    /\ UNCHANGED <<client, entered, carried, keys>>

Arrived == stage = "read" /\ UNCHANGED vars

Next == Request \/ ProcessURL \/ Strip \/ SendKeys \/ ReadKeys \/ Arrived

Spec == Init /\ [][Next]_vars
-----------------------------------------------------------------------------
(* Properties. *)

\* The types: only usages of the keyboard page are sent, 0 for what has no key.
TypeOK ==
    /\ client \in {"ios", "raw"}
    /\ entered \in Inputs
    /\ carried \in Seq(STRING)
    /\ keys \in Seq((0..56) \X BOOLEAN)
    /\ field \in Seq(STRING)
    /\ stage \in {"entered", "requested", "posted", "stripped", "sent", "read"}

HasKey(c) == HidUsageCodeForCharacter(c) # 0
Trouble == {"=", "%", "\\", "|"}

\* A text from the iOS client appears as it was entered exactly when each of its characters
\* has a key and none is one of the four the path has trouble with: "=" ends the value,
\* "%" does not survive the second decoding, "\" and "|" have their shift exchanged.
ArrivesUnlessTroubled ==
    stage = "read" /\ client = "ios" =>
        (field = entered <=> \A i \in DOMAIN entered :
                                HasKey(entered[i]) /\ entered[i] \notin Trouble)

\* From every client: nothing but the text's own characters is typed, in their order, from
\* the first one on, unless "%" or the exchanged keys are involved.  What is lost is at the
\* end, after a "=".
ShowsPrefix ==
    stage = "read" /\ ToSet(entered) \cap {"%", "\\", "|"} = {}
        => IsPrefix(field, SelectSeq(entered, HasKey))

\* The help text's promise: enterText "sends text to a text entry view".
SendsText == stage = "read" /\ client = "ios" => field = entered

\* The comment of IOHIDTest: shift is held for each of these characters.
CommentedShiftSet ==
    {"~", "!", "@", "#", "$", "%", "^", "&", "*", "(", ")", "_", "+", "|", "}", "{", "<", ">",
     ":", "\"", "?"}

HoldsShiftAsCommented ==
    stage = "read" /\ client = "ios" /\ Len(entered) = 1 /\ entered[1] \in CommentedShiftSet
        => \A i \in DOMAIN keys : keys[i][2]
==============================================================================

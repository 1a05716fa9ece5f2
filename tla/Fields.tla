------------------------------- MODULE Fields -------------------------------
(***************************************************************************)
(* The fields of a secret from end to end: secret put --field KEY=VALUE    *)
(* reads them, secrets get selects some of them, and --env-file writes one *)
(* line NAME='value' for each, to be read by a shell.  (In between they    *)
(* are encrypted under the vault key, which modules Vault and Daemon are   *)
(* about.)                                                                 *)
(*                                                                         *)
(* Texts are sequences of characters from a small alphabet that has one of *)
(* each kind the code tells apart: a letter, a digit, an underscore,       *)
(* another mark, an equals sign, a blank, a quote and a backslash.         *)
(***************************************************************************)
EXTENDS Naturals, Sequences, SequencesExt

Quote == "'"
Backslash == "\\"

\* The ASCII letters of the alphabet; digits stay, everything else is a mark.
Upper  == [ch \in {"a", "A"} |-> "A"]
Digits == {"2"}

----------------------------------------------------------------------------
(* secret put *)

IsEquals(ch) == ch = "="

\* Splitting at the last equals sign.
ParseFieldAtLast(arg) ==
  LET i == SelectLastInSeq(arg, IsEquals)
  IN [key |-> SubSeq(arg, 1, i - 1), value |-> SubSeq(arg, i + 1, Len(arg))]

\* split_once: the value may have equals signs of its own.
ParseField(arg) ==
  LET i == SelectInSeq(arg, IsEquals)
  IN [key |-> SubSeq(arg, 1, i - 1), value |-> SubSeq(arg, i + 1, Len(arg))]

\* One argument that is no pair refuses the command, as does having none.
FieldsAccepted(args) ==
  args # <<>> /\ \A i \in DOMAIN args : \E j \in DOMAIN args[i] : IsEquals(args[i][j])

\* A field given again gets another value.
InsertField(fields, field) ==
  [key \in DOMAIN fields \cup {field.key} |->
     IF key = field.key THEN field.value ELSE fields[key]]

\* parse_key_value_fields, one argument after another.
ParseKeyValueFields(args) ==
  LET fields[i \in 0..Len(args)] ==
        IF i = 0 THEN [key \in {} |-> <<>>]
        ELSE InsertField(fields[i - 1], ParseField(args[i]))
  IN fields[Len(args)]

----------------------------------------------------------------------------
(* secrets get *)

\* One field that the secret does not have refuses all of them.
FieldsSelectable(all_fields, fields) == fields \subseteq DOMAIN all_fields

\* select_fields: no names are all names.
SelectFields(all_fields, fields) ==
  [field \in (IF fields = {} THEN DOMAIN all_fields ELSE fields) |-> all_fields[field]]

----------------------------------------------------------------------------
(* --env-file *)

\* Leaving what is not a letter as it is.
SanitizeCharLeniently(ch) == IF ch \in DOMAIN Upper THEN Upper[ch] ELSE ch

SanitizeChar(ch) ==
  IF ch \in DOMAIN Upper THEN Upper[ch] ELSE IF ch \in Digits THEN ch ELSE "_"

\* sanitize_env_name
SanitizeEnvName(field) == [i \in DOMAIN field |-> SanitizeChar(field[i])]

\* Quotes are left as they are.
QuoteCharBare(ch) == <<ch>>

\* A quote leaves the quoted part, is escaped, and enters it again.
QuoteChar(ch) == IF ch = Quote THEN <<Quote, Backslash, Quote, Quote>> ELSE <<ch>>

QuoteChars(value) ==
  LET quoted[i \in 0..Len(value)] ==
        IF i = 0 THEN <<>> ELSE quoted[i - 1] \o QuoteChar(value[i])
  IN quoted[Len(value)]

\* shell_quote; an empty value is a pair of quotes.
ShellQuote(value) == <<Quote>> \o QuoteChars(value) \o <<Quote>>

\* write_env_file
EnvLines(fields) ==
  {[name |-> SanitizeEnvName(field), word |-> ShellQuote(fields[field])] : field \in DOMAIN fields}

----------------------------------------------------------------------------
\* How a shell reads a word: a quote opens and closes a part in which every character
\* stands for itself, a backslash outside of one stands for the next character, and a
\* blank outside of one ends the word.
ShellReadsChar(read, ch) ==
  CASE read.at = "quoted" ->
         IF ch = Quote THEN [read EXCEPT !.at = "bare"]
         ELSE [read EXCEPT !.word = Append(@, ch)]
    [] read.at = "escaped" -> [at |-> "bare", word |-> Append(read.word, ch)]
    [] read.at = "bare" ->
         IF ch = Quote THEN [read EXCEPT !.at = "quoted"]
         ELSE IF ch = Backslash THEN [read EXCEPT !.at = "escaped"]
         ELSE IF ch = " " THEN [read EXCEPT !.at = "ended"]
         ELSE [read EXCEPT !.word = Append(@, ch)]
    [] read.at = "ended" -> read

ShellReads(chars) ==
  LET read[i \in 0..Len(chars)] ==
        IF i = 0 THEN [at |-> "bare", word |-> <<>>]
        ELSE ShellReadsChar(read[i - 1], chars[i])
  IN read[Len(chars)]

\* What a shell accepts as the name of a variable.
ShellName(name) ==
  /\ name # <<>>
  /\ \A i \in DOMAIN name : name[i] \in {"a", "A", "_"} \cup Digits
  /\ Head(name) \notin Digits

----------------------------------------------------------------------------
VARIABLES
  args,   \* the --field arguments of a secret put
  asked   \* the names in a later secrets get; none for all

\* What the get returns.
Got == SelectFields(ParseKeyValueFields(args), asked)

Gets == FieldsAccepted(args) /\ FieldsSelectable(ParseKeyValueFields(args), asked)

\* Every field that is got was put, under that very name, with that very value, and was
\* not put again later in the command; every field that was put and asked for is got.
GetsWhatWasPut ==
  Gets =>
    /\ \A field \in DOMAIN Got : \E i \in DOMAIN args :
         /\ args[i] = field \o <<"=">> \o Got[field]
         /\ \A j \in DOMAIN args : j > i => ~IsPrefix(field \o <<"=">>, args[j])
    /\ \A i \in DOMAIN args : \E field \in DOMAIN ParseKeyValueFields(args) :
         /\ IsPrefix(field \o <<"=">>, args[i])
         /\ asked = {} \/ field \in asked => field \in DOMAIN Got

\* Whatever a value contains, a shell reads the line back as that value, and as one
\* word.
ValuesReadBack ==
  Gets =>
    \A field \in DOMAIN Got :
      ShellReads(ShellQuote(Got[field])) = [at |-> "bare", word |-> Got[field]]

\* Every name, but for an empty one or one that starts with a digit, is a shell name.
NamesAreShellNames ==
  Gets =>
    \A field \in DOMAIN Got :
      field # <<>> /\ Head(field) \notin Digits => ShellName(SanitizeEnvName(field))

\* "Writes the selected fields as shell-compatible environment assignments": each
\* field is assigned to a variable of its own, with a name that a shell takes.
ShellCompatible ==
  Gets =>
    /\ \A line \in EnvLines(Got) : ShellName(line.name)
    /\ \A field, other \in DOMAIN Got :
         field # other => SanitizeEnvName(field) # SanitizeEnvName(other)
=============================================================================

---------------------------- MODULE JsonDocuments ----------------------------
(***************************************************************************)
(* The settings file through one write and one read: the manager builds a  *)
(* value (SettingsManager::save), writes it, may crash before fclose() has *)
(* flushed it, and reads it when it is started again                       *)
(* (SettingsManager::load); a user may write the file as well. The         *)
(* parameters of the application are a line in that file, from which       *)
(* startCore_() makes the arguments of the process it starts.              *)
(***************************************************************************)
EXTENDS JsonReader, ArgcArgv

CONSTANTS
  Leaves,         \* the values a member or an element is given
  Names,          \* the names of members
  Arguments,      \* the sequences of arguments a user wants
  ByHand,         \* the documents a user writes
  Numerals,       \* the integers a user writes
  BufferSize,     \* the buffer that load() reads into, at first
  MaxNodes        \* bound on the values in a document

VARIABLES
  value,     \* rootJson
  file,      \* its text, by whom it was written, the number or the arguments in it,
             \* and whether the arguments begin with a blank
  saved,     \* the value that was written last
  loaded,    \* what the last parse() answered with
  argv       \* the arguments of the process that was started

vars == <<value, file, saved, loaded, argv>>

NoFile == [text |-> <<>>, by |-> "nobody", number |-> 0, args |-> <<>>, blank |-> FALSE]
Never == [ok |-> FALSE, value |-> Null, at |-> -1]

Parameters == <<"p">>
ApplicationName == <<"x">>

RECURSIVE Nodes(_)
Nodes(v) ==
  LET Children == IF v.type = "array" THEN v.items ELSE v.members
  IN  IF isContainer(v) THEN 1 + SumFunction([k \in DOMAIN Children |-> Nodes(Children[k])])
      ELSE 1

Init ==
  /\ value = Null /\ file = NoFile /\ saved = Null /\ loaded = Never /\ argv = <<>>

-----------------------------------------------------------------------------
(* Building a value. One file is followed at a time: fopen("w") leaves     *)
(* nothing of the one before.                                              *)

Edit(v) ==
  /\ file = NoFile /\ Nodes(v) <= MaxNodes
  /\ value' = v
  /\ UNCHANGED <<file, saved, loaded, argv>>

Assign == \E w \in Leaves : value = Null /\ Edit(w)
AddMember == \E name \in Names, w \in Leaves : isObject(value) /\ Edit(SetMember(value, name, w))
AddElement == \E w \in Leaves : isArray(value) /\ Edit(append(value, w))
AddNested ==
  \/ \E w \in Leaves, i \in 0..Size(value) - 1 :
       /\ isArray(value) /\ isArray(ElementAt(value, i))
       /\ Edit(SetElement(value, i, append(ElementAt(value, i), w)))
  \/ \E name \in Names, w \in Leaves :
       LET member == MemberAt(value, name)
       IN  /\ isObject(value)
           /\ \/ /\ isObject(member)
                 /\ \E inner \in Names : Edit(SetMember(value, name, SetMember(member, inner, w)))
              \/ isArray(member) /\ Edit(SetMember(value, name, append(member, w)))
Drop ==
  \/ \E name \in Names : value.type = "object" /\ Edit(removeMember(value, name))
  \/ value.type \in {"array", "object"} /\ Edit(clear(value))
Resize ==
  \E size \in 0..MaxNodes :
    isArray(value) /\ ResizeAsserted(value, size) /\ Edit(resize(value, size))

\* The line a user writes for these arguments: quotes around those that need
\* them, blanks between them, and a blank in front or none.
Bare(arg) == arg # <<>> /\ \A i \in DOMAIN arg : arg[i] \notin {Quote, "'", "\\", " ", "\t"}
Quoted(arg) ==
  <<Quote>> \o FlattenSeq([i \in DOMAIN arg |->
      IF arg[i] \in {Quote, "\\"} THEN <<"\\", arg[i]>> ELSE <<arg[i]>>]) \o <<Quote>>
Line(args, blank) ==
  FlattenSeq([i \in DOMAIN args |->
    (IF i > 1 \/ blank THEN <<" ">> ELSE <<>>)
      \o IF Bare(args[i]) THEN args[i] ELSE Quoted(args[i])])

\* "CoreManager.applicationParameters" is set in the settings.
Configure ==
  \E args \in Arguments, blank \in BOOLEAN :
    /\ file = NoFile /\ value = Null
    /\ value' = SetMember(Null, Parameters, StringOf(Line(args, blank)))
    /\ file' = [NoFile EXCEPT !.args = args, !.blank = blank]
    /\ UNCHANGED <<saved, loaded, argv>>

-----------------------------------------------------------------------------
(* The file *)

\* Json::StyledWriter().write(), fwrite() and fclose()
Write(writer, text) ==
  /\ file.by = "nobody"
  /\ file' = [file EXCEPT !.text = text, !.by = writer]
  /\ saved' = value
  /\ UNCHANGED <<value, loaded, argv>>

SaveStyled == Write("styled", StyledWrite(value))
SaveFast == Write("fast", FastWrite(value))

\* The manager crashes before the buffer of the file is flushed.
Crash ==
  /\ file.by = "styled" /\ loaded = Never
  /\ \E n \in 0..Len(file.text) - 1 :
       file' = [file EXCEPT !.text = SubSeq(@, 1, n), !.by = "crash"]
  /\ value' = Null
  /\ UNCHANGED <<saved, loaded, argv>>

Numeral(n) == IF n < 0 THEN <<"-">> \o uintToString(-n) ELSE uintToString(n)

WriteByHand ==
  /\ file = NoFile /\ value = Null
  /\ \/ \E d \in ByHand : file' = [NoFile EXCEPT !.text = d, !.by = "user"]
     \/ \E n \in Numerals :
          file' = [NoFile EXCEPT !.text = <<"[">> \o Numeral(n) \o <<"]">>,
                                 !.by = "user", !.number = n]
  /\ UNCHANGED <<value, saved, loaded, argv>>

\* load(): the buffer is doubled until a read does not fill it, and what is
\* left of it is NUL.
RECURSIVE Buffered(_, _)
Buffered(text, size) ==
  IF Len(text) >= size THEN Buffered(text, 2 * size)
  ELSE text \o [i \in 1..size - Len(text) |-> "NUL"]

Load ==
  /\ file.by # "nobody" /\ loaded = Never
  /\ loaded' = parse(Buffered(file.text, BufferSize), strictMode)
  /\ value' = loaded'.value
  /\ UNCHANGED <<file, saved, argv>>

\* The settings that were read are written when the manager exits, and the
\* next manager reads them.
SaveAgain ==
  /\ loaded.ok
  /\ file' = [file EXCEPT !.text = StyledWrite(value), !.by = "again"]
  /\ saved' = value /\ loaded' = Never
  /\ UNCHANGED <<value, argv>>

\* startCore_(): the child splits the name and the parameters, which are put
\* together without a blank.
StartCore ==
  /\ loaded.ok /\ argv = <<>> /\ isObject(value)
  /\ MemberAt(value, Parameters).type = "string"
  /\ argv' = ArgvOf(ApplicationName \o asString(MemberAt(value, Parameters)))
  /\ UNCHANGED <<value, file, saved, loaded>>

Next ==
  \/ Assign \/ AddMember \/ AddElement \/ AddNested \/ Drop \/ Resize \/ Configure
  \/ SaveStyled \/ SaveFast \/ Crash \/ WriteByHand \/ Load \/ SaveAgain \/ StartCore

Spec == Init /\ [][Next]_vars

-----------------------------------------------------------------------------
(* Properties *)

\* What a value is after it has been written and read: a reader makes an
\* int of every integer up to maxInt and of the negative ones and a uint of
\* the others, an element that an array does not have becomes a null, and
\* a string ends at its first NUL.
RECURSIVE Settled(_)
Settled(v) ==
  CASE v.type = "int" -> IF v.int > maxInt THEN UIntOf(v.int) ELSE v
    [] v.type = "uint" -> IF v.uint > maxInt THEN v ELSE IntOf(v.uint)
    [] v.type = "string" -> StringOf(CString(v.string))
    [] v.type = "array" -> ArrayOf([i \in 0..Size(v) - 1 |-> Settled(ElementAt(v, i))])
    [] v.type = "object" -> ObjectOf([n \in DOMAIN v.members |-> Settled(v.members[n])])
    [] OTHER -> v

\* The numerals that decodeNumber() takes for integers though they do not
\* fit: what is in front of the last digit is above the threshold, and the
\* last digit is small.
Overflowing(n) ==
  LET size == IF n < 0 THEN -n ELSE n
      max == IF n < 0 THEN maxLargestInt + 1 ELSE maxLargestUInt
  IN  size \div 100 < max \div 10 /\ size \div 10 > max \div 10 /\ size % 10 <= max % 10

\* What was written is read back whole, by either writer, whatever needs an
\* escape, a sign or more than one line in it, and nothing but an array, an
\* object or null is accepted as a document (Features::strictMode). What
\* was read once is read again as it is, however often it is written, if no
\* number in it was one of the above.
WrittenIsRead ==
  file.by \in {"styled", "fast", "again"} /\ loaded # Never =>
    IF isArray(saved) \/ isObject(saved)
    THEN loaded.ok /\ loaded.value = IF file.by = "again" /\ ~Overflowing(file.number)
                                    THEN saved ELSE Settled(saved)
    ELSE ~loaded.ok

\* A file that lost its end in a crash is refused: settings are never read
\* from a part of what was written, unless only white space is missing.
CutIsRefused ==
  file.by = "crash" /\ loaded # Never =>
    (loaded.ok <=> file.text = SubSeq(StyledWrite(saved), 1, Len(StyledWrite(saved)) - 1)
                   /\ (isArray(saved) \/ isObject(saved)))

\* An integer in a document is read as that integer, in the type it fits,
\* and as a real where it fits none (decodeNumber), but for the ones above.
NumbersAreKept ==
  file.number # 0 /\ ~Overflowing(file.number) /\ loaded # Never =>
    LET n == file.number
        read == ElementAt(loaded.value, 0)
    IN  /\ loaded.ok
        /\ read = CASE n < minLargestInt \/ n > maxLargestUInt -> RealOf(10 * n)
                    [] minLargestInt <= n /\ n <= maxInt -> IntOf(n)
                    [] OTHER -> UIntOf(n)

\* The arguments a user writes are the ones the application is started with,
\* through the settings, their file and the command line. startCore_() puts
\* nothing between the name and the parameters (CoreManager.cpp:370), so the
\* first argument runs into argv[0] unless the user's line begins with a blank.
ArgumentsAreKept ==
  file.args # <<>> /\ argv # <<>> =>
    argv = IF file.blank THEN <<ApplicationName>> \o file.args
           ELSE <<ApplicationName \o Head(file.args)>> \o Tail(file.args)

\* isConvertibleTo() says of a number that is not wider than Int what asInt(),
\* asUInt() and asDouble() do, and they answer with that number.
Narrow(v) == CASE v.type = "int" -> v.int \in minInt..maxInt
               [] v.type = "uint" -> v.uint \in 0..maxUInt
               [] OTHER -> TRUE
ConvertibleIsConverted ==
  Narrow(value) =>
    /\ isConvertibleTo(value, "int") <=> asInt(value) # Throws
    /\ isConvertibleTo(value, "uint") <=> asUInt(value) # Throws
    /\ isConvertibleTo(value, "real") <=> asDouble(value) # Throws
    /\ asInt(value) # Throws => asInt(value) = Truncated(asDouble(value))
    /\ asUInt(value) # Throws => asUInt(value) = Truncated(asDouble(value))
=============================================================================

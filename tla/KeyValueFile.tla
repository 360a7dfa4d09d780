---------------------------- MODULE KeyValueFile ----------------------------
(***************************************************************************)
(* KeyValue (src/csgo_gc/keyvalue.cpp): a tree of named keys, each with a  *)
(* string or with subkeys, written to and parsed from a text file.         *)
(*                                                                         *)
(* A file is a sequence of tokens; white space and comments, which the     *)
(* writer does not produce, are left out.  ItemFile writes such files,     *)
(* may die while it does, and reads what is there.                         *)
(***************************************************************************)
EXTENDS Naturals, SequencesExt

NoText == ""     \* m_string.empty()
CutText == "cut" \* what is left of a string that the file ends in

\* A KeyValue: m_name, m_string and m_subkeys.
Key(name, text, subs) == [name |-> name, text |-> text, subs |-> subs]
Section(name, subs) == Key(name, NoText, subs)
String(name, text) == Key(name, text, <<>>)

\* The keys with four levels below them: an inventory's file has no more.
KeysOver(subs) == [name : STRING, text : STRING, subs : Seq(subs)]
FileTrees == KeysOver(KeysOver(KeysOver(KeysOver(KeysOver({})))))

-----------------------------------------------------------------------------
(* WriteToFile.                                                            *)

Str(text) == [is |-> "string", text |-> text]
Open == [is |-> "{", text |-> NoText]
Close == [is |-> "}", text |-> NoText]

\* A key without a string and without subkeys is not written.  A slip: nor is any
\* without a string.
SkippedWithoutString(sub) == sub.text = NoText
Skipped(sub) == sub.text = NoText /\ sub.subs = <<>>

WrittenKey(sub, below) ==
  IF Skipped(sub) THEN <<>>
  ELSE IF sub.text # NoText THEN <<Str(sub.name), Str(sub.text)>>
  ELSE <<Str(sub.name), Open>> \o below \o <<Close>>

\* The subkeys of a key, by indent: WriteToFile calls itself for the subkeys of each, which
\* in an inventory's file ends at the attributes of an item, with an indent of 3.
Written3(parent) ==
  FlattenSeq([i \in DOMAIN parent.subs |-> WrittenKey(parent.subs[i], <<>>)])
Written2(parent) ==
  FlattenSeq([i \in DOMAIN parent.subs |-> WrittenKey(parent.subs[i], Written3(parent.subs[i]))])
Written1(parent) ==
  FlattenSeq([i \in DOMAIN parent.subs |-> WrittenKey(parent.subs[i], Written2(parent.subs[i]))])
Written(parent) ==
  FlattenSeq([i \in DOMAIN parent.subs |-> WrittenKey(parent.subs[i], Written1(parent.subs[i]))])

\* What a process leaves that dies while it writes: some of the tokens, the last of
\* them, when it is a string, perhaps in part.
TornFiles(tokens) ==
  UNION {
    LET front == SubSeq(tokens, 1, n) IN
    {front} \cup
    IF tokens[n + 1].is = "string"
      THEN {Append(front, Str(CutText)), Append(front, Str(NoText))} ELSE {} :
    n \in 0..(Len(tokens) - 1)}

-----------------------------------------------------------------------------
(* Parse.                                                                  *)

Named(parent, name) == {i \in DOMAIN parent.subs : parent.subs[i].name = name}

\* FindOrCreateSubkey: the first subkey of that name, or a new one at the end.
IndexOf(parent, name) ==
  IF Named(parent, name) # {}
  THEN CHOOSE i \in Named(parent, name) : \A j \in Named(parent, name) : i <= j
  ELSE Len(parent.subs) + 1

FoundOrCreated(parent, name) ==
  IF IndexOf(parent, name) \in DOMAIN parent.subs THEN parent
  ELSE [parent EXCEPT !.subs = Append(@, Section(name, <<>>))]

\* How far Parse has come: the key whose subkeys it reads and which of them was named
\* last, the keys that one is in, the outermost first, with the subkey they are at, and
\* what is to come: a subkey's name, its value, or nothing, at the end or after an error.
Progress(outer, key, current, expects) ==
  [outer |-> outer, key |-> key, current |-> current, expects |-> expects]

\* A key with the one that is read in it, which is its subkey from the beginning.
Holding(level, inner) == [level.key EXCEPT !.subs[level.current] = inner]

\* One token.
Parsed(p, token) ==
  CASE p.expects = "name" /\ token.is = "string" ->
         Progress(p.outer, FoundOrCreated(p.key, token.text), IndexOf(p.key, token.text), "value")
    [] p.expects = "name" /\ token.is = "}" /\ p.outer # <<>> ->
         Progress(Front(p.outer), Holding(Last(p.outer), p.key), Last(p.outer).current, "name")
    [] p.expects = "name" /\ token.is = "}" /\ p.outer = <<>> -> [p EXCEPT !.expects = "end"]
    [] p.expects = "value" /\ token.is = "string" ->
         Progress(p.outer, [p.key EXCEPT !.subs[p.current].text = token.text], p.current, "name")
    [] p.expects = "value" /\ token.is = "{" ->
         Progress(Append(p.outer, [key |-> p.key, current |-> p.current]),
                  p.key.subs[p.current], 0, "name")
    [] p.expects = "end" -> p
    [] OTHER -> [p EXCEPT !.expects = "error"]

\* The tokens of f, as subkeys of key.
Parse(f, key) ==
  LET parse[n \in 0..Len(f)] ==
        IF n = 0 THEN Progress(<<>>, key, 0, "name") ELSE Parsed(parse[n - 1], f[n])
  IN parse[Len(f)]

\* The outermost key as it is when the parser stops.
Outermost(p) ==
  LET within[n \in 0..Len(p.outer)] ==
        IF n = 0 THEN p.key ELSE Holding(p.outer[Len(p.outer) + 1 - n], within[n - 1])
  IN within[Len(p.outer)]

Result(ok, key) == [ok |-> ok, key |-> key]

\* ParseFromFile, into a key of that name.  A file without a byte is not parsed; the end
\* of one closes every key.
FromFile(f, name) ==
  IF f = <<>> THEN Result(FALSE, Section(name, <<>>))
  ELSE LET p == Parse(f, Section(name, <<>>))
       IN Result(p.expects \in {"name", "end"}, Outermost(p))

\* GetSubkey, for its subkeys and for its string: those of nothing are none.
SubsOf(parent, name) ==
  IF Named(parent, name) = {} THEN <<>> ELSE parent.subs[Min(Named(parent, name))].subs
GetString(parent, name) ==
  IF Named(parent, name) = {} THEN NoText ELSE parent.subs[Min(Named(parent, name))].text

=============================================================================

----------------------------- MODULE MetaBlocks -----------------------------
(***************************************************************************)
(* Meta blocks of a project's input that add annotations to the fields of  *)
(* a type: annotationMetaParser (gen/generator.go), line by line.          *)
(***************************************************************************)
EXTENDS Integers, Sequences

CONSTANTS Lines,       \* lines of meta blocks, see LineShape
          OwnField,    \* the fields of the type the block is for
          MaxLines     \* bound on a block

NoName == ""
Names == STRING \ {NoName}
LineShape ==
  [kind : {"$"}, annotation : Names, specifier : Names \cup {NoName}]
    \cup [kind : {":"}, specifier : Names]
    \cup [kind : {"."}, field : Names]
    \cup {[kind |-> "tags"]}

ASSUME LinesAssumption == Lines \subseteq LineShape

VARIABLES block,       \* the lines read so far
          parser,      \* annotationMetaParser
          filed,       \* what was filed among the fields' annotations
          reading      \* "on", "done", "not annotations", "failed", "panicked"

metaVars == <<block, parser, filed, reading>>

AtStart == [annotation |-> NoName, specifier |-> NoName, field |-> NoName, tags |-> <<>>]

MetaInit == block = <<>> /\ parser = AtStart /\ filed = <<>> /\ reading = "on"

-----------------------------------------------------------------------------
(* flush files the tags under the field and the annotation of the moment,  *)
(* if there is a field.  A field of a base type is reported with a nil     *)
(* package, a field that is unknown is dereferenced: it panics.            *)
Filed(p) ==
  filed \o [i \in DOMAIN IF p.field = NoName THEN <<>> ELSE p.tags |->
              [field |-> p.field, annotation |-> p.annotation,
               specifier |-> p.specifier, line |-> p.tags[i]]]

Flush(p) ==
  IF p.field \in OwnField \cup {NoName}
  THEN filed' = Filed(p) /\ parser' = [p EXCEPT !.tags = <<>>] /\ UNCHANGED reading
  ELSE filed' = filed /\ parser' = p /\ reading' = "panicked"

(* parseNext, a line of each kind.  A specifier that is not given stays.   *)
ReadAnnotation(l) ==
  /\ l.kind = "$"
  /\ Flush([parser EXCEPT !.annotation = l.annotation,
                          !.specifier = IF l.specifier = NoName THEN @ ELSE l.specifier])

ReadSpecifier(l) ==
  /\ l.kind = ":"
  /\ parser' = [parser EXCEPT !.specifier = l.specifier] /\ UNCHANGED <<filed, reading>>

(* Mutation: a field takes the specifier away. *)
ReadFieldAfresh(l) ==
  l.kind = "." /\ Flush([parser EXCEPT !.field = l.field, !.specifier = NoName])

ReadField(l) == l.kind = "." /\ Flush([parser EXCEPT !.field = l.field])

(* Tags are remembered by their line.  A block that begins with tags may   *)
(* be for a processor of a plugin.                                         *)
ReadTags(l) ==
  /\ l.kind = "tags"
  /\ IF parser.annotation # NoName
     THEN parser' = [parser EXCEPT !.tags = Append(@, Len(block) + 1)] /\ UNCHANGED reading
     ELSE /\ reading' = IF block = <<>> THEN "not annotations" ELSE "failed"
          /\ UNCHANGED parser
  /\ UNCHANGED filed

ReadLine(l) ==
  /\ reading = "on" /\ Len(block) < MaxLines
  /\ block' = Append(block, l)
  /\ ReadAnnotation(l) \/ ReadSpecifier(l) \/ ReadField(l) \/ ReadTags(l)

(* ParseAnnotationMeta at the end of the block. *)
EndBlock ==
  /\ reading = "on" /\ block # <<>>
  /\ reading' = "done" /\ filed' = Filed(parser)
  /\ UNCHANGED <<block, parser>>

MetaNext == (\E l \in Lines : ReadLine(l)) \/ EndBlock

MetaSpec == MetaInit /\ [][MetaNext]_metaVars

-----------------------------------------------------------------------------
(* The last line of a kind before line i, 0 for none. *)
LastOf(kinds, i) ==
  LET s == {j \in 1..(i - 1) : block[j].kind \in kinds}
  IN  IF s = {} THEN 0 ELSE CHOOSE j \in s : \A o \in s : o <= j

(* Tags of a block are filed once, under the field, the annotation and the *)
(* specifier of the lines before them, or nowhere when no field is before  *)
(* them; unless another such line comes after the tags, which takes them   *)
(* with it, or a specifier was left over from an annotation before.        *)
FiledWhereWritten ==
  reading = "done" =>
    \A i \in {j \in DOMAIN block : block[j].kind = "tags"} :
      LET entries == {k \in DOMAIN filed : filed[k].line = i}
          at == LastOf({"$"}, i)
          specifier == LastOf({":", "$"}, i)
          later == \E j \in (i + 1)..Len(block) : block[j].kind # "tags"
          leftOver == \E j \in 1..(at - 1) :
                        block[j].kind \in {":", "$"} /\ block[j].specifier # NoName
      IN  /\ \A k, m \in entries : k = m
          /\ ~later /\ LastOf({"."}, i) = 0 => entries = {}
          /\ ~later /\ LastOf({"."}, i) > 0 /\ ~leftOver =>
               \E k \in entries :
                 filed[k] = [field |-> block[LastOf({"."}, i)].field,
                             annotation |-> block[at].annotation,
                             specifier |-> block[specifier].specifier, line |-> i]
=============================================================================

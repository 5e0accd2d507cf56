-------------------------- MODULE GeneratedProofs --------------------------
(***************************************************************************)
(* Code that is generated for an entity: the statements of its methods,    *)
(* and the engine's object of a configuration.                             *)
(*                                                                         *)
(* A body is a sequence of statements, and the invariant of a call is      *)
(* about what of its body is left: whatever the declaration asks for has   *)
(* been run or is still ahead (Fits), and an object has been validated     *)
(* unless its validation is ahead.  Of a configuration, what a call that   *)
(* is alone finds at each of its places, and what holds of any call.       *)
(***************************************************************************)
EXTENDS EntityMethods, ConfigEntity, TLAPS

(***************************************************************************)
(* The bodies of methods.  A body is a part that prepares, the method's    *)
(* main action, and a part that follows.                                   *)
(***************************************************************************)
Pre == {"mayRead", "mayWrite", "mayCreate", "mayDelete", "deleteHook", "changeHook", "times",
        "identified", "valid", "load", "found", "generate"}
Post == {"changedHook", "uncheckedHook"}
Statement == Pre \cup Post \cup {"create", "save", "remove"}
Changing == {"New", "Set", "Delete"}
Main == [New |-> "create", Set |-> "save", Delete |-> "remove"]

Has(s, x) == \E k \in 1..Len(s) : s[k] = x

(* The reference of the object is validated after the last hook. *)
Validates(s) == s # <<>> /\ s[Len(s)] = "valid"

Prepares(m, s) ==
  /\ s \in Seq(Pre)
  /\ declared.checked => \A x \in Needed[m] : Has(s, x)
  /\ declared.reference # "inherited" /\ m # "Delete" => Validates(s)

LEMMA HasConcat ==
  ASSUME NEW S, NEW s \in Seq(S), NEW t \in Seq(S), NEW x
  PROVE  Has(s \o t, x) <=> Has(s, x) \/ Has(t, x)
<1>1. s \o t \in Seq(S) /\ Len(s \o t) = Len(s) + Len(t) /\ Len(s) \in Nat /\ Len(t) \in Nat
  OBVIOUS
<1>2. \A k \in 1..(Len(s) + Len(t)) : (s \o t)[k] = IF k <= Len(s) THEN s[k] ELSE t[k - Len(s)]
  OBVIOUS
<1>3. ASSUME Has(s \o t, x) PROVE Has(s, x) \/ Has(t, x)
  <2>1. PICK k \in 1..(Len(s) + Len(t)) : (s \o t)[k] = x
    BY <1>1, <1>3 DEF Has
  <2>2. CASE k <= Len(s)
    BY <1>1, <1>2, <2>1, <2>2 DEF Has
  <2>3. CASE k > Len(s)
    <3>1. k - Len(s) \in 1..Len(t) /\ t[k - Len(s)] = x
      BY <1>1, <1>2, <2>1, <2>3
    <3> QED
      BY <3>1 DEF Has
  <2> QED
    BY <1>1, <2>2, <2>3
<1>4. ASSUME Has(s, x) PROVE Has(s \o t, x)
  <2>1. PICK k \in 1..Len(s) : s[k] = x
    BY <1>4 DEF Has
  <2>2. k \in 1..(Len(s) + Len(t)) /\ (s \o t)[k] = x
    BY <1>1, <1>2, <2>1
  <2> QED
    BY <1>1, <2>2 DEF Has
<1>5. ASSUME Has(t, x) PROVE Has(s \o t, x)
  <2>1. PICK k \in 1..Len(t) : t[k] = x
    BY <1>5 DEF Has
  <2>2. k + Len(s) \in 1..(Len(s) + Len(t)) /\ (s \o t)[k + Len(s)] = x
    <3>1. k + Len(s) \in 1..(Len(s) + Len(t)) /\ ~(k + Len(s) <= Len(s)) /\ (k + Len(s)) - Len(s) = k
      BY <1>1, <2>1
    <3> QED
      BY <1>2, <2>1, <3>1
  <2> QED
    BY <1>1, <2>2 DEF Has
<1> QED
  BY <1>3, <1>4, <1>5

LEMMA ValidatesConcat ==
  ASSUME NEW S, NEW s \in Seq(S), NEW t \in Seq(S), Validates(t)
  PROVE  Validates(s \o t)
<1>1. Len(s \o t) = Len(s) + Len(t) /\ Len(s) \in Nat /\ Len(t) \in Nat \ {0}
  BY DEF Validates
<1>2. (s \o t)[Len(s) + Len(t)] = t[Len(t)]
  <2>1. Len(s) + Len(t) \in 1..(Len(s) + Len(t)) /\ ~(Len(s) + Len(t) <= Len(s))
        /\ (Len(s) + Len(t)) - Len(s) = Len(t)
    BY <1>1
  <2> QED
    BY <2>1
<1> QED
  BY <1>1, <1>2 DEF Validates

LEMMA Singles ==
  ASSUME NEW S, NEW x \in S, NEW y \in S
  PROVE  /\ <<x>> \in Seq(S) /\ Len(<<x>>) = 1 /\ <<x>>[1] = x
         /\ <<x, y>> \in Seq(S) /\ <<>> \in Seq(S)
OBVIOUS

LEMMA Concat ==
  ASSUME NEW S, NEW s \in Seq(S), NEW t \in Seq(S)
  PROVE  s \o t \in Seq(S) /\ Len(s \o t) = Len(s) + Len(t) /\ Len(s) \in Nat /\ Len(t) \in Nat
OBVIOUS

LEMMA AccessIs ==
  /\ Access["Get"] = "mayRead" /\ Access["Set"] = "mayWrite"
  /\ Access["New"] = "mayCreate" /\ Access["Delete"] = "mayDelete"
  /\ Needed["Set"] = {"mayRead", "mayWrite"} /\ Needed["New"] = {"mayCreate"}
  /\ Needed["Delete"] = {"mayRead", "mayDelete"}
BY DEF Access, Needed

(* The parts the plugins add, of a declaration.                            *)
LEMMA Fragments ==
  ASSUME declared \in DeclarationType, NEW m \in {"Get", "New", "Set", "Delete"}
  PROVE  /\ Checks(m) \in Seq(Pre) /\ (declared.checked => Has(Checks(m), Access[m]))
         /\ Hooks(m) \in Seq(Pre) /\ HooksAfter(m) \in Seq(Post)
         /\ EnterAfterHooks(m) \in Seq(Pre)
         /\ m \in {"New", "Set"} /\ declared.reference # "inherited" => Validates(EnterAfterHooks(m))
<1>1. Checks(m) \in Seq(Pre) /\ (declared.checked => Has(Checks(m), Access[m]))
  <2>1. Access[m] \in {"mayRead", "mayWrite", "mayCreate", "mayDelete"}
    BY AccessIs
  <2>2. <<Access[m]>> \in Seq(Pre) /\ Len(<<Access[m]>>) = 1 /\ <<Access[m]>>[1] = Access[m]
    BY <2>1, Singles DEF Pre
  <2>3. Has(<<Access[m]>>, Access[m])
    BY <2>2 DEF Has
  <2> QED
    BY <2>2, <2>3 DEF Checks
<1>2. Hooks(m) \in Seq(Pre) /\ HooksAfter(m) \in Seq(Post)
  <2>1. "deleteHook" \in Pre /\ "changeHook" \in Pre /\ "uncheckedHook" \in Post /\ "changedHook" \in Post
    BY DEF Pre, Post
  <2>2. /\ <<"deleteHook", "changeHook">> \in Seq(Pre) /\ <<"changeHook">> \in Seq(Pre) /\ <<>> \in Seq(Pre)
        /\ <<"uncheckedHook">> \in Seq(Post) /\ <<"changedHook">> \in Seq(Post) /\ <<>> \in Seq(Post)
    BY <2>1, Singles
  <2> QED
    BY <2>2 DEF Hooks, HooksAfter
<1>3. Times(m) \in Seq(Pre) /\ Identify(m) \in Seq(Pre) /\ Validate(m) \in Seq(Pre)
  <2>1. "times" \in Pre /\ "identified" \in Pre /\ "valid" \in Pre
    BY DEF Pre
  <2>2. <<"times">> \in Seq(Pre) /\ <<"identified">> \in Seq(Pre) /\ <<"valid">> \in Seq(Pre) /\ <<>> \in Seq(Pre)
    BY <2>1, Singles
  <2> QED
    BY <2>2 DEF Times, Identify, Validate
<1>4. EnterAfterHooks(m) \in Seq(Pre)
  BY <1>3 DEF EnterAfterHooks
<1>5. ASSUME m \in {"New", "Set"}, declared.reference # "inherited"
      PROVE  Validates(EnterAfterHooks(m))
  <2>1. Validate(m) = <<"valid">>
    BY <1>5 DEF Validate, Validated
  <2>2. Validates(Validate(m))
    BY <2>1 DEF Validates
  <2>3. Times(m) \o Identify(m) \in Seq(Pre)
    BY <1>3
  <2> QED
    BY <1>3, <2>2, <2>3, ValidatesConcat DEF EnterAfterHooks
<1> QED
  BY <1>1, <1>2, <1>4, <1>5

(* A body of Get only prepares. *)
LEMMA GetBodyIs ==
  ASSUME declared \in DeclarationType
  PROVE  /\ GetBody \in Seq(Pre) /\ GetBody # <<>>
         /\ declared.checked => Has(GetBody, "mayRead")
<1>1. Checks("Get") \in Seq(Pre) /\ (declared.checked => Has(Checks("Get"), "mayRead"))
      /\ EnterAfterHooks("Get") \in Seq(Pre)
  BY Fragments, AccessIs
<1>2. "load" \in Pre /\ <<"load">> \in Seq(Pre) /\ Len(<<"load">>) = 1
  BY Singles DEF Pre
<1>3. PICK s : s = Checks("Get") \o EnterAfterHooks("Get")
  OBVIOUS
<1>4. s \in Seq(Pre)
  BY <1>1, <1>3, Concat
<1>8. GetBody = s \o <<"load">>
  BY <1>3 DEF GetBody, Enter
<1>5. declared.checked => Has(s, "mayRead")
  BY <1>1, <1>3, HasConcat
<1>6. GetBody \in Seq(Pre) /\ Len(GetBody) = Len(s) + 1 /\ Len(s) \in Nat
  BY <1>2, <1>4, <1>8, Concat
<1>7. declared.checked => Has(GetBody, "mayRead")
  BY <1>2, <1>4, <1>5, <1>8, HasConcat
<1>9. GetBody # <<>>
  BY <1>6
<1> QED
  BY <1>6, <1>7, <1>9

LEMMA BodyIs ==
  ASSUME declared \in DeclarationType, NEW m \in Changing
  PROVE  \E p, q : Prepares(m, p) /\ q \in Seq(Post) /\ Body(m) = (p \o <<Main[m]>>) \o q
<1>1. /\ Checks(m) \in Seq(Pre) /\ (declared.checked => Has(Checks(m), Access[m]))
      /\ Hooks(m) \in Seq(Pre) /\ HooksAfter(m) \in Seq(Post)
      /\ EnterAfterHooks(m) \in Seq(Pre)
      /\ m \in {"New", "Set"} /\ declared.reference # "inherited" => Validates(EnterAfterHooks(m))
  BY Fragments DEF Changing
<1>2. PICK g : g = IF m = "New" THEN IF declared.auto THEN <<"generate">> ELSE <<>>
                   ELSE GetBody \o <<"found">>
  OBVIOUS
<1>3. g \in Seq(Pre) /\ (declared.checked /\ m # "New" => Has(g, "mayRead"))
  <2>1. "generate" \in Pre /\ "found" \in Pre
    BY DEF Pre
  <2>2. <<"generate">> \in Seq(Pre) /\ <<>> \in Seq(Pre) /\ <<"found">> \in Seq(Pre)
    BY <2>1, Singles
  <2>3. GetBody \o <<"found">> \in Seq(Pre) /\ (declared.checked => Has(GetBody \o <<"found">>, "mayRead"))
    BY <2>2, GetBodyIs, HasConcat, Concat
  <2> QED
    BY <1>2, <2>2, <2>3
<1>4. PICK h : h = g \o Checks(m)
  OBVIOUS
<1>5. h \in Seq(Pre) /\ (declared.checked => \A x \in Needed[m] : Has(h, x))
  <2>1. h \in Seq(Pre)
    BY <1>1, <1>3, <1>4, Concat
  <2>2. \A x : Has(h, x) <=> Has(g, x) \/ Has(Checks(m), x)
    BY <1>1, <1>3, <1>4, HasConcat
  <2>3. \A x \in Needed[m] : x = Access[m] \/ (m # "New" /\ x = "mayRead")
    BY AccessIs DEF Changing
  <2> QED
    BY <1>1, <1>3, <2>1, <2>2, <2>3
<1>6. PICK i : i = h \o Hooks(m)
  OBVIOUS
<1>7. i \in Seq(Pre) /\ (declared.checked => \A x \in Needed[m] : Has(i, x))
  <2>1. i \in Seq(Pre)
    BY <1>1, <1>5, <1>6, Concat
  <2>2. \A x : Has(h, x) => Has(i, x)
    BY <1>1, <1>5, <1>6, HasConcat
  <2> QED
    BY <1>5, <2>1, <2>2
<1>8. PICK p : p = i \o EnterAfterHooks(m)
  OBVIOUS
<1>9. Prepares(m, p)
  <2>1. p \in Seq(Pre)
    BY <1>1, <1>7, <1>8, Concat
  <2>2. \A x : Has(i, x) => Has(p, x)
    BY <1>1, <1>7, <1>8, HasConcat
  <2>3. m # "Delete" /\ declared.reference # "inherited" => Validates(p)
    BY <1>1, <1>7, <1>8, ValidatesConcat DEF Changing
  <2> QED
    BY <1>7, <2>1, <2>2, <2>3 DEF Prepares
<1>10. Body(m) = (p \o <<Main[m]>>) \o HooksAfter(m)
  <2>1. CASE m = "New"
    BY <1>2, <1>4, <1>6, <1>8, <2>1 DEF Body, NewBody, Enter, Main
  <2>2. CASE m = "Set"
    BY <1>2, <1>4, <1>6, <1>8, <2>2 DEF Body, SetBody, Enter, Main
  <2>3. CASE m = "Delete"
    BY <1>2, <1>4, <1>6, <1>8, <2>3 DEF Body, DeleteBody, Enter, Main
  <2> QED
    BY <2>1, <2>2, <2>3 DEF Changing
<1> QED
  BY <1>1, <1>9, <1>10

-----------------------------------------------------------------------------
(***************************************************************************)
(* A call.  The object's reference is as the declaration wants it.         *)
(***************************************************************************)
Good(r) == r \in Reference \/ (r = NoReference /\ declared.reference = "nullable")

Ops == {"Get", "New", "Set", "Delete", "NewBulk", "SetBulk"}
CallType ==
  [op : Ops \cup {"none"}, method : {"Get"} \cup Changing, body : Seq(Statement), obj : Thing,
   todo : Seq(Thing), loaded : BOOLEAN, passed : SUBSET Statement, wrote : BOOLEAN,
   asked : Nat, done : Nat, made : Nat, missed : Nat, reply : {"none", "ok", "error"}]

ReferenceGood(c) == Good(c.obj.ref)
SameReference(c, d) == d.obj.ref = c.obj.ref

(* The main action is the m-th statement from here: what comes before      *)
(* prepares it, what it needs was granted or will be asked for, and the    *)
(* validation is just before it, or has been.                              *)
MainAt(c, m) ==
  /\ c.body[m] = Main[c.method]
  /\ \A k \in 1..(m - 1) : c.body[k] \in Pre
  /\ \A k \in (m + 1)..Len(c.body) : c.body[k] \in Post
  /\ declared.checked =>
       \A x \in Needed[c.method] : x \in c.passed \/ \E k \in 1..(m - 1) : c.body[k] = x
  /\ declared.reference # "inherited" /\ c.method # "Delete" =>
       IF m > 1 THEN c.body[m - 1] = "valid" ELSE ReferenceGood(c)

Ahead(c) == \E m \in 1..Len(c.body) : MainAt(c, m)
Behind(c) == c.body \in Seq(Post) /\ (declared.checked => Needed[c.method] \subseteq c.passed)

(* The call under way, and its counts.                                     *)
Fits(c) ==
  /\ c \in CallType /\ c.op \in Ops /\ c.reply = "none"
  /\ c.asked = c.done + 1 + Len(c.todo)
  /\ \/ /\ c.op = "Get" /\ c.method = "Get" /\ c.body \in Seq(Pre) /\ ~c.wrote
        /\ c.done = 0 /\ c.made = 0 /\ c.missed = 0 /\ c.todo = <<>>
     \/ /\ c.op # "Get" /\ c.method \in Changing
        /\ \/ Ahead(c) /\ ~c.wrote /\ c.made + c.missed = c.done
           \/ Behind(c) /\ c.made + c.missed = c.done + 1

Granted(c) == declared.checked /\ c.wrote => Needed[c.method] \subseteq c.passed
Answered(c) ==
  /\ c.reply = "ok" /\ c.op # "Get" => c.done = c.asked /\ c.made + c.missed = c.done
  /\ c.reply = "error" => /\ c.done < c.asked
                          /\ c.made + c.missed \in {c.done, c.done + 1}
                          /\ c.wrote => Head(c.body) \in {"create", "save", "remove", "changedHook"}

CallInv(c) ==
  /\ c \in CallType /\ Granted(c) /\ Answered(c)
  /\ c.op # "none" /\ c.reply = "none" => Fits(c) /\ c.body # <<>>

MethodsInv ==
  /\ declared \in DeclarationType /\ items \subseteq Reference /\ lastId \in DocId
  /\ documents \in [DocId -> Referred \cup {NoThing}]
  /\ act \in [Actor -> CallType]
  /\ \A a \in Actor : CallInv(act[a])
  /\ ReferencesExplained

(* The call after its next statement, not yet looked at.                   *)
Rest(c) == [c EXCEPT !.body = Tail(@), !.passed = @ \cup {Head(c.body)}]

-----------------------------------------------------------------------------
LEMMA StatementsDiffer ==
  /\ Pre \cap Post = {} /\ Pre \subseteq Statement /\ Post \subseteq Statement
  /\ \A m \in Changing : Main[m] \in {"create", "save", "remove"} /\ Main[m] \in Statement
  /\ "create" \notin Pre \cup Post /\ "save" \notin Pre \cup Post /\ "remove" \notin Pre \cup Post
  /\ Needed["Get"] = {}
<1>1. \A m \in Changing : Main[m] \in {"create", "save", "remove"}
  BY DEF Main, Changing
<1>2. Needed["Get"] = {}
  BY DEF Needed
<1> QED
  BY <1>1, <1>2 DEF Pre, Post, Statement

LEMMA TailIs ==
  ASSUME NEW S, NEW s \in Seq(S), s # <<>>
  PROVE  /\ Tail(s) \in Seq(S) /\ Len(Tail(s)) = Len(s) - 1 /\ Len(s) \in Nat \ {0}
         /\ \A k \in 1..(Len(s) - 1) : Tail(s)[k] = s[k + 1]
         /\ Head(s) = s[1] /\ s[1] \in S
OBVIOUS

(* The first statement of a call under way.                                *)
LEMMA HeadIs ==
  ASSUME NEW c, Fits(c), c.body # <<>>
  PROVE  /\ Head(c.body) = c.body[1] /\ Head(c.body) \in Statement /\ Len(c.body) \in Nat \ {0}
         /\ Head(c.body) \in Pre => ~c.wrote
         /\ c.wrote => Behind(c) /\ c.op # "Get"
         /\ Tail(c.body) \in Seq(Statement) /\ Len(Tail(c.body)) = Len(c.body) - 1
         /\ \A k \in 1..(Len(c.body) - 1) : Tail(c.body)[k] = c.body[k + 1]
<1>1. c.body \in Seq(Statement)
  BY DEF Fits, CallType
<1>2. Head(c.body) = c.body[1] /\ Head(c.body) \in Statement /\ Len(c.body) \in Nat \ {0}
  BY <1>1
<1>3. c.wrote => Behind(c) /\ c.op # "Get"
  BY DEF Fits
<1>4. ASSUME Head(c.body) \in Pre PROVE ~c.wrote
  <2>1. SUFFICES ASSUME c.wrote PROVE FALSE
    OBVIOUS
  <2>2. c.body[1] \in Post
    BY <1>2, <1>3, <2>1 DEF Behind
  <2> QED
    BY <1>2, <1>4, <2>2, StatementsDiffer
<1>5. /\ Tail(c.body) \in Seq(Statement) /\ Len(Tail(c.body)) = Len(c.body) - 1
      /\ \A k \in 1..(Len(c.body) - 1) : Tail(c.body)[k] = c.body[k + 1]
  BY <1>1
<1> QED
  BY <1>2, <1>3, <1>4, <1>5

LEMMA RestIs ==
  ASSUME NEW c \in CallType, c.body # <<>>
  PROVE  /\ Rest(c) \in CallType
         /\ Rest(c).body = Tail(c.body) /\ Rest(c).passed = c.passed \cup {Head(c.body)}
         /\ Rest(c).op = c.op /\ Rest(c).method = c.method /\ Rest(c).obj = c.obj
         /\ Rest(c).todo = c.todo /\ Rest(c).loaded = c.loaded /\ Rest(c).wrote = c.wrote
         /\ Rest(c).asked = c.asked /\ Rest(c).done = c.done /\ Rest(c).made = c.made
         /\ Rest(c).missed = c.missed /\ Rest(c).reply = c.reply
<1>1. Tail(c.body) \in Seq(Statement) /\ Head(c.body) \in Statement
  BY DEF CallType
<1>2. PICK b : b = Tail(c.body)
  OBVIOUS
<1>3. PICK h : h = Head(c.body)
  OBVIOUS
<1>4. PICK g : g = c.passed \cup {h}
  OBVIOUS
<1>5. Rest(c) = [c EXCEPT !.body = b, !.passed = g]
  BY <1>2, <1>3, <1>4 DEF Rest, CallType
<1>6. b \in Seq(Statement) /\ g \in SUBSET Statement
  <2>1. c.passed \in SUBSET Statement
    BY DEF CallType
  <2> QED
    BY <1>1, <1>2, <1>3, <1>4, <2>1
<1>7. [c EXCEPT !.body = b, !.passed = g] \in CallType
  BY <1>6 DEF CallType
<1>8. PICK r \in CallType : r = [c EXCEPT !.body = b, !.passed = g]
  BY <1>7
<1>9. /\ r.body = b /\ r.passed = g
      /\ r.op = c.op /\ r.method = c.method /\ r.obj = c.obj
      /\ r.todo = c.todo /\ r.loaded = c.loaded /\ r.wrote = c.wrote
      /\ r.asked = c.asked /\ r.done = c.done /\ r.made = c.made
      /\ r.missed = c.missed /\ r.reply = c.reply
  BY <1>8 DEF CallType
<1> QED
  BY <1>2, <1>3, <1>4, <1>5, <1>8, <1>9

(* Calls that differ in what they have loaded and in their object.         *)
Same(c, d) ==
  /\ d.op = c.op /\ d.method = c.method /\ d.body = c.body /\ d.todo = c.todo /\ d.passed = c.passed
  /\ d.wrote = c.wrote /\ d.asked = c.asked /\ d.done = c.done /\ d.made = c.made
  /\ d.missed = c.missed /\ d.reply = c.reply

LEMMA PrepareFits ==
  ASSUME NEW c, Fits(c), c.body # <<>>, Head(c.body) \in Pre,
         NEW d \in CallType, Same(c, d),
         SameReference(c, d) \/ Head(c.body) = "changeHook",
         Head(c.body) = "valid" /\ declared.reference # "inherited" => ReferenceGood(d)
  PROVE  Fits(Rest(d))
<1>1. PICK r : r = Rest(d)
  OBVIOUS
<1>2. /\ r \in CallType /\ r.body = Tail(c.body) /\ r.passed = c.passed \cup {Head(c.body)}
      /\ r.op = c.op /\ r.method = c.method /\ r.obj = d.obj /\ r.todo = c.todo /\ r.wrote = c.wrote
      /\ r.asked = c.asked /\ r.done = c.done /\ r.made = c.made /\ r.missed = c.missed
      /\ r.reply = c.reply
  BY <1>1, RestIs DEF Same
<1>3. /\ Head(c.body) = c.body[1] /\ ~c.wrote /\ Len(c.body) \in Nat \ {0}
      /\ Tail(c.body) \in Seq(Statement) /\ Len(Tail(c.body)) = Len(c.body) - 1
      /\ \A k \in 1..(Len(c.body) - 1) : Tail(c.body)[k] = c.body[k + 1]
  BY HeadIs
<1>4. CASE c.op = "Get"
  <2>0. c.body \in Seq(Pre)
    BY <1>4 DEF Fits
  <2>1. Tail(c.body) \in Seq(Pre)
    BY <2>0, TailIs
  <2> QED
    BY <1>1, <1>2, <1>4, <2>1 DEF Fits
<1>5. CASE c.op # "Get"
  <2>1. ~Behind(c)
    <3>1. Behind(c) => c.body[1] \in Post
      BY TailIs DEF Behind
    <3> QED
      BY <1>3, <3>1, StatementsDiffer
  <2>2. Ahead(c) /\ c.method \in Changing /\ c.made + c.missed = c.done
    BY <1>5, <2>1 DEF Fits
  <2>3. PICK m : m \in 1..Len(c.body) /\ MainAt(c, m)
    BY <2>2 DEF Ahead
  <2>0. m \in Nat /\ 1 <= m /\ m <= Len(c.body)
    BY <1>3, <2>3
  <2>4. m > 1
    <3>1. m # 1
      BY <1>3, <2>2, <2>3, StatementsDiffer DEF MainAt
    <3> QED
      BY <2>0, <3>1
  <2>5. PICK n : n = m - 1
    OBVIOUS
  <2>6. n \in 1..Len(r.body) /\ Len(r.body) = Len(c.body) - 1 /\ n \in Nat /\ m = n + 1
    BY <1>2, <1>3, <2>0, <2>4, <2>5
  <2>7. \A k \in 1..Len(r.body) : r.body[k] = c.body[k + 1]
    BY <1>2, <1>3, <2>6
  <2>8. r.body[n] = Main[r.method]
    BY <1>2, <2>3, <1>3, <2>0, <2>5, <2>6, <2>7 DEF MainAt
  <2>9. \A k \in 1..(n - 1) : r.body[k] \in Pre
    <3> SUFFICES ASSUME NEW k \in 1..(n - 1) PROVE r.body[k] \in Pre
      OBVIOUS
    <3>1. k + 1 \in 1..(m - 1) /\ r.body[k] = c.body[k + 1]
      BY <2>0, <2>6, <2>7
    <3> QED
      BY <2>3, <3>1 DEF MainAt
  <2>10. \A k \in (n + 1)..Len(r.body) : r.body[k] \in Post
    BY <2>3, <1>3, <2>0, <2>5, <2>6, <2>7 DEF MainAt
  <2>11. ASSUME declared.checked, NEW x \in Needed[r.method]
         PROVE  x \in r.passed \/ \E k \in 1..(n - 1) : r.body[k] = x
    <3>1. x \in c.passed \/ \E k \in 1..(m - 1) : c.body[k] = x
      BY <1>2, <2>3, <2>11 DEF MainAt
    <3>2. CASE x \in c.passed
      BY <1>2, <3>2
    <3>3. ASSUME NEW k \in 1..(m - 1), c.body[k] = x PROVE x \in r.passed \/ \E j \in 1..(n - 1) : r.body[j] = x
      <4>1. CASE k = 1
        BY <1>2, <1>3, <3>3, <4>1
      <4>2. CASE k # 1
        <5>1. k - 1 \in 1..(n - 1) /\ r.body[k - 1] = x
          BY <2>3, <1>3, <2>0, <2>5, <2>6, <2>7, <3>3, <4>2
        <5> QED
          BY <5>1
      <4> QED
        BY <4>1, <4>2
    <3> QED
      BY <3>1, <3>2, <3>3
  <2>12. ASSUME declared.reference # "inherited", r.method # "Delete"
         PROVE  IF n > 1 THEN r.body[n - 1] = "valid" ELSE ReferenceGood(r)
    <3>1. c.body[m - 1] = "valid"
      BY <1>2, <2>3, <2>4, <2>12 DEF MainAt
    <3>2. CASE n > 1
      <4>1. n - 1 \in 1..Len(r.body) /\ (n - 1) + 1 = m - 1
        BY <2>6, <3>2
      <4>2. r.body[n - 1] = c.body[m - 1]
        BY <2>7, <4>1
      <4> QED
        BY <3>1, <3>2, <4>2
    <3>3. CASE n = 1
      <4>1. ReferenceGood(d)
        BY <1>2, <1>3, <2>0, <2>5, <2>6, <2>12, <3>1, <3>3
      <4> QED
        BY <1>2, <3>3, <4>1 DEF ReferenceGood
    <3> QED
      BY <2>6, <3>2, <3>3
  <2>13. MainAt(r, n)
    BY <2>8, <2>9, <2>10, <2>11, <2>12 DEF MainAt
  <2> QED
    BY <1>1, <1>2, <1>3, <1>5, <2>2, <2>6, <2>13 DEF Fits, Ahead
<1> QED
  BY <1>4, <1>5

LEMMA Narrowed ==
  ASSUME NEW S, NEW T, NEW s \in Seq(S), \A k \in 1..Len(s) : s[k] \in T
  PROVE  s \in Seq(T)
<1>1. Len(s) \in Nat /\ s \in [1..Len(s) -> S] /\ DOMAIN s = 1..Len(s)
  OBVIOUS
<1>2. s \in [1..Len(s) -> T]
  BY <1>1
<1> QED
  BY <1>1, <1>2

LEMMA Appended ==
  ASSUME NEW S, NEW s \in Seq(S), NEW q \in Seq(S), NEW m \in Nat, Len(s) = m, NEW t, t = s \o q
  PROVE  /\ Len(t) = m + Len(q)
         /\ \A k \in 1..(m + Len(q)) : t[k] = IF k <= m THEN s[k] ELSE q[k - m]
<1>1. Len(s \o q) = Len(s) + Len(q) /\ Len(s) \in Nat /\ Len(q) \in Nat
  BY Concat
<1>2. \A k \in 1..(Len(s) + Len(q)) : (s \o q)[k] = IF k <= Len(s) THEN s[k] ELSE q[k - Len(s)]
  OBVIOUS
<1> QED
  BY <1>1, <1>2

(* The main action is next: it has all it needs, and is its method's.      *)
LEMMA MainIsNext ==
  ASSUME NEW c, Fits(c), c.body # <<>>, Head(c.body) \in {"create", "save", "remove"}
  PROVE  /\ c.op # "Get" /\ c.method \in Changing /\ Head(c.body) = Main[c.method]
         /\ ~c.wrote /\ c.made + c.missed = c.done
         /\ declared.checked => Needed[c.method] \subseteq c.passed
         /\ declared.reference # "inherited" /\ c.method # "Delete" => ReferenceGood(c)
         /\ Tail(c.body) \in Seq(Post)
<1>1. /\ Head(c.body) = c.body[1] /\ Len(c.body) \in Nat \ {0}
      /\ Tail(c.body) \in Seq(Statement) /\ Len(Tail(c.body)) = Len(c.body) - 1
      /\ \A k \in 1..(Len(c.body) - 1) : Tail(c.body)[k] = c.body[k + 1]
  BY HeadIs
<1>2. c.body[1] \notin Pre \cup Post
  BY <1>1, StatementsDiffer
<1>3. c.op # "Get"
  <2>1. SUFFICES ASSUME c.body \in Seq(Pre) PROVE FALSE
    BY DEF Fits
  <2> QED
    BY <1>2, <2>1, TailIs
<1>4. ~Behind(c)
  BY <1>2, TailIs DEF Behind
<1>5. Ahead(c) /\ c.method \in Changing /\ ~c.wrote /\ c.made + c.missed = c.done
  BY <1>3, <1>4 DEF Fits
<1>6. PICK m \in 1..Len(c.body) : MainAt(c, m)
  BY <1>5 DEF Ahead
<1>7. m = 1
  <2>1. m \in Nat /\ 1 <= m /\ m <= Len(c.body)
    BY <1>1, <1>6
  <2>2. m > 1 => 1 \in 1..(m - 1)
    BY <2>1
  <2>3. m > 1 => c.body[1] \in Pre
    BY <1>6, <2>2 DEF MainAt
  <2> QED
    BY <1>2, <2>1, <2>3
<1>8. Tail(c.body) \in Seq(Post)
  <2>1. \A k \in 1..Len(Tail(c.body)) : Tail(c.body)[k] \in Post
    <3> SUFFICES ASSUME NEW k \in 1..Len(Tail(c.body)) PROVE Tail(c.body)[k] \in Post
      OBVIOUS
    <3>1. k + 1 \in (1 + 1)..Len(c.body) /\ Tail(c.body)[k] = c.body[k + 1]
      BY <1>1
    <3> QED
      BY <1>6, <1>7, <3>1 DEF MainAt
  <2> QED
    BY <1>1, <2>1, Narrowed
<1>9. /\ Head(c.body) = Main[c.method]
      /\ declared.checked => Needed[c.method] \subseteq c.passed
      /\ declared.reference # "inherited" /\ c.method # "Delete" => ReferenceGood(c)
  BY <1>1, <1>6, <1>7 DEF MainAt
<1> QED
  BY <1>3, <1>5, <1>8, <1>9

(* The main action has run, with an effect or without.                     *)
LEMMA MainFits ==
  ASSUME NEW c, Fits(c), c.body # <<>>, Head(c.body) \in {"create", "save", "remove"},
         NEW d \in CallType, d.made + d.missed = c.made + c.missed + 1,
         d.op = c.op, d.method = c.method, d.body = c.body, d.todo = c.todo, d.passed = c.passed,
         d.asked = c.asked, d.done = c.done, d.reply = c.reply
  PROVE  Fits(Rest(d)) /\ Granted(Rest(d))
<1>1. /\ c.op # "Get" /\ c.method \in Changing /\ ~c.wrote /\ c.made + c.missed = c.done
      /\ declared.checked => Needed[c.method] \subseteq c.passed
      /\ Tail(c.body) \in Seq(Post)
  BY MainIsNext
<1>2. PICK r : r = Rest(d)
  OBVIOUS
<1>3. /\ r \in CallType /\ r.body = Tail(c.body) /\ r.passed = c.passed \cup {Head(c.body)}
      /\ r.op = c.op /\ r.method = c.method /\ r.todo = c.todo
      /\ r.asked = c.asked /\ r.done = c.done /\ r.made + r.missed = c.done + 1
      /\ r.reply = c.reply
  BY <1>1, <1>2, RestIs
<1>4. Behind(r)
  BY <1>1, <1>3 DEF Behind
<1> QED
  BY <1>1, <1>2, <1>3, <1>4 DEF Fits, Granted, Behind

(* A statement after the main action. *)
LEMMA FollowFits ==
  ASSUME NEW c, Fits(c), c.body # <<>>, Head(c.body) \in Post
  PROVE  Fits(Rest(c))
<1>1. Head(c.body) = c.body[1] /\ Len(c.body) \in Nat \ {0}
  BY HeadIs
<1>2. c.body[1] \notin Pre \cup {"create", "save", "remove"}
  BY <1>1, StatementsDiffer
<1>3. c.op # "Get"
  <2>1. SUFFICES ASSUME c.body \in Seq(Pre) PROVE FALSE
    BY DEF Fits
  <2> QED
    BY <1>2, <2>1, TailIs
<1>4. ~Ahead(c)
  <2> SUFFICES ASSUME NEW m \in 1..Len(c.body), MainAt(c, m) PROVE FALSE
    BY DEF Ahead
  <2>1. m \in Nat /\ 1 <= m /\ m <= Len(c.body) /\ c.method \in Changing
    BY <1>1, <1>3 DEF Fits
  <2>2. m > 1 => c.body[1] \in Pre
    BY <2>1 DEF MainAt
  <2>3. m = 1 => c.body[1] \in {"create", "save", "remove"}
    BY <2>1, StatementsDiffer DEF MainAt
  <2> QED
    BY <1>2, <2>1, <2>2, <2>3
<1>5. Behind(c) /\ c.method \in Changing /\ c.made + c.missed = c.done + 1
  BY <1>3, <1>4 DEF Fits
<1>6. PICK r : r = Rest(c)
  OBVIOUS
<1>7. c \in CallType
  BY DEF Fits
<1>8. /\ r \in CallType /\ r.body = Tail(c.body) /\ r.passed = c.passed \cup {Head(c.body)}
      /\ r.op = c.op /\ r.method = c.method /\ r.todo = c.todo /\ r.wrote = c.wrote
      /\ r.asked = c.asked /\ r.done = c.done /\ r.made = c.made /\ r.missed = c.missed
      /\ r.reply = c.reply
  BY <1>6, <1>7, RestIs
<1>9. Tail(c.body) \in Seq(Post)
  BY <1>5, TailIs DEF Behind
<1>10. Behind(r)
  BY <1>5, <1>8, <1>9 DEF Behind
<1> QED
  BY <1>3, <1>5, <1>6, <1>8, <1>10 DEF Fits

(* A call takes up another object.                                         *)
LEMMA TakeUpIs ==
  ASSUME NEW c \in CallType, c.op \in Ops, NEW o \in Thing, declared \in DeclarationType
  PROVE  LET t == TakeUp(c, o)
         IN  /\ t \in CallType /\ t.op = c.op /\ t.method = Method(c.op, o) /\ t.obj = o
             /\ t.todo = c.todo /\ ~t.wrote /\ t.asked = c.asked /\ t.done = c.done
             /\ t.made = c.made /\ t.missed = c.missed /\ t.reply = c.reply
             /\ t.body = Body(t.method) /\ t.passed = {}
             /\ (IF c.op = "Get" THEN t.method = "Get" ELSE t.method \in Changing)
<1>1. Method(c.op, o) \in {"Get"} \cup Changing
      /\ (IF c.op = "Get" THEN Method(c.op, o) = "Get" ELSE Method(c.op, o) \in Changing)
  BY DEF Method, Ops, Changing
<1>2. PICK m : m = Method(c.op, o)
  OBVIOUS
<1>3. PICK b : b = Body(m)
  OBVIOUS
<1>4. b \in Seq(Statement)
  <2>1. CASE m = "Get"
    <3>1. b = GetBody /\ GetBody \in Seq(Pre)
      BY <1>3, <2>1, GetBodyIs DEF Body
    <3> QED
      BY <3>1, StatementsDiffer
  <2>2. CASE m \in Changing
    <3>1. PICK p, q : Prepares(m, p) /\ q \in Seq(Post) /\ Body(m) = (p \o <<Main[m]>>) \o q
      BY <2>2, BodyIs
    <3>2. p \in Seq(Statement) /\ q \in Seq(Statement) /\ <<Main[m]>> \in Seq(Statement)
      BY <2>2, <3>1, StatementsDiffer, Singles DEF Prepares
    <3> QED
      BY <1>3, <3>1, <3>2, Concat
  <2> QED
    BY <1>1, <1>2, <2>1, <2>2
<1>5. TakeUp(c, o) = [c EXCEPT !.method = m, !.body = b, !.obj = o, !.loaded = FALSE, !.passed = {}, !.wrote = FALSE]
  BY <1>2, <1>3 DEF TakeUp
<1>6. PICK t : t = [c EXCEPT !.method = m, !.body = b, !.obj = o, !.loaded = FALSE, !.passed = {}, !.wrote = FALSE]
  OBVIOUS
<1>7. t \in CallType
  BY <1>1, <1>2, <1>4, <1>6 DEF CallType
<1>8. /\ t.op = c.op /\ t.method = m /\ t.obj = o /\ t.todo = c.todo /\ ~t.wrote
      /\ t.asked = c.asked /\ t.done = c.done /\ t.made = c.made /\ t.missed = c.missed
      /\ t.reply = c.reply /\ t.body = b /\ t.passed = {}
  BY <1>6 DEF CallType
<1> QED
  BY <1>1, <1>2, <1>3, <1>5, <1>6, <1>7, <1>8

LEMMA TakeUpFits ==
  ASSUME NEW c \in CallType, c.op \in Ops, NEW o \in Thing, declared \in DeclarationType,
         c.reply = "none", c.asked = c.done + 1 + Len(c.todo), c.made + c.missed = c.done,
         c.op = "Get" => c.done = 0 /\ c.todo = <<>>
  PROVE  CallInv(TakeUp(c, o)) /\ TakeUp(c, o) \in CallType
<1>1. PICK t : t = TakeUp(c, o)
  OBVIOUS
<1>2. /\ t \in CallType /\ t.op = c.op /\ t.obj = o
      /\ t.todo = c.todo /\ ~t.wrote /\ t.asked = c.asked /\ t.done = c.done
      /\ t.made = c.made /\ t.missed = c.missed /\ t.reply = c.reply
      /\ t.body = Body(t.method)
      /\ (IF c.op = "Get" THEN t.method = "Get" ELSE t.method \in Changing)
  BY <1>1, TakeUpIs
<1>3. CASE c.op = "Get"
  <2>1. t.body = GetBody
    BY <1>2, <1>3 DEF Body
  <2>2. t.body \in Seq(Pre) /\ t.body # <<>>
    BY <2>1, GetBodyIs
  <2>3. t.made = 0 /\ t.missed = 0
    BY <1>2, <1>3 DEF CallType
  <2> QED
    BY <1>1, <1>2, <1>3, <2>2, <2>3 DEF CallInv, Fits, Granted, Answered
<1>4. CASE c.op # "Get"
  <2>1. t.method \in Changing
    BY <1>2, <1>4
  <2>2. PICK p, q : Prepares(t.method, p) /\ q \in Seq(Post) /\ Body(t.method) = (p \o <<Main[t.method]>>) \o q
    BY <2>1, BodyIs
  <2>3. PICK m : m = Len(p) + 1
    OBVIOUS
  <2>4. p \in Seq(Pre) /\ Len(p) \in Nat /\ Len(q) \in Nat /\ m \in Nat \ {0} /\ Len(p) = m - 1
    BY <2>2, <2>3 DEF Prepares
  <2>5. PICK s : s = p \o <<Main[t.method]>>
    OBVIOUS
  <2>6. /\ s \in Seq(Statement) /\ Len(s) = m /\ s[m] = Main[t.method]
        /\ \A k \in 1..(m - 1) : s[k] = p[k]
    <3>1. p \in Seq(Statement) /\ <<Main[t.method]>> \in Seq(Statement)
          /\ Len(<<Main[t.method]>>) = 1 /\ <<Main[t.method]>>[1] = Main[t.method]
      BY <2>1, <2>4, StatementsDiffer, Singles
    <3> QED
      BY <2>3, <2>4, <2>5, <3>1, Concat
  <2>7. /\ Len(t.body) = m + Len(q) /\ t.body[m] = Main[t.method]
        /\ \A k \in 1..(m - 1) : t.body[k] = p[k]
        /\ \A k \in (m + 1)..(m + Len(q)) : t.body[k] = q[k - m]
    <3>1. t.body = s \o q /\ q \in Seq(Statement)
      BY <1>2, <2>2, <2>5, StatementsDiffer
    <3>2. Len(t.body) = m + Len(q)
          /\ \A k \in 1..(m + Len(q)) : t.body[k] = IF k <= m THEN s[k] ELSE q[k - m]
      <4>1. PICK b : b = t.body
        OBVIOUS
      <4>2. b = s \o q
        BY <3>1, <4>1
      <4>3. Len(b) = m + Len(q) /\ \A k \in 1..(m + Len(q)) : b[k] = IF k <= m THEN s[k] ELSE q[k - m]
        <5>1. s \in Seq(Statement) /\ q \in Seq(Statement) /\ m \in Nat /\ Len(s) = m
          BY <2>4, <2>6, <3>1
        <5> QED
          BY <5>1, <4>2, Appended
      <4> QED
        BY <4>1, <4>3
    <3> QED
      BY <2>4, <2>6, <3>2
  <2>8. MainAt(t, m)
    <3>1. \A k \in 1..(m - 1) : t.body[k] \in Pre
      <4> SUFFICES ASSUME NEW k \in 1..(m - 1) PROVE t.body[k] \in Pre
        OBVIOUS
      <4>1. k \in 1..Len(p) /\ p[k] \in Pre
        BY <2>4
      <4>2. t.body[k] = p[k]
        BY <2>7
      <4> QED
        BY <4>1, <4>2
    <3>2. \A k \in (m + 1)..Len(t.body) : t.body[k] \in Post
      <4> SUFFICES ASSUME NEW k \in (m + 1)..Len(t.body) PROVE t.body[k] \in Post
        OBVIOUS
      <4>1. k - m \in 1..Len(q) /\ t.body[k] = q[k - m]
        BY <2>4, <2>7
      <4> QED
        BY <2>2, <4>1
    <3>3. ASSUME declared.checked, NEW x \in Needed[t.method]
          PROVE  \E k \in 1..(m - 1) : t.body[k] = x
      <4>1. PICK k \in 1..Len(p) : p[k] = x
        BY <2>2, <3>3 DEF Prepares, Has
      <4> QED
        BY <2>4, <2>7, <4>1
    <3>4. ASSUME declared.reference # "inherited", t.method # "Delete"
          PROVE  m > 1 /\ t.body[m - 1] = "valid"
      <4>1. p # <<>> /\ p[Len(p)] = "valid"
        BY <2>2, <3>4 DEF Prepares, Validates
      <4>2. Len(p) # 0
        BY <2>4, <4>1
      <4>3. m > 1 /\ m - 1 \in 1..(m - 1)
        BY <2>4, <4>2
      <4> QED
        BY <2>4, <2>7, <4>1, <4>3
    <3> QED
      BY <2>7, <3>1, <3>2, <3>3, <3>4 DEF MainAt
  <2>9. Ahead(t) /\ t.body # <<>>
    <3>1. m \in 1..Len(t.body)
      BY <2>4, <2>7
    <3> QED
      BY <2>8, <3>1 DEF Ahead
  <2> QED
    BY <1>1, <1>2, <1>4, <2>1, <2>9 DEF CallInv, Fits, Granted, Answered
<1> QED
  BY <1>3, <1>4

-----------------------------------------------------------------------------
(***************************************************************************)
(* What the steps of a call leave of its invariant.                        *)
(***************************************************************************)
LEMMA GoOnInv ==
  ASSUME NEW c \in CallType, c.body # <<>>, Fits(Rest(c)), Granted(Rest(c)),
         declared \in DeclarationType
  PROVE  GoOn(c) \in CallType /\ CallInv(GoOn(c))
<1>1. PICK r : r = Rest(c)
  OBVIOUS
<1>2. r \in CallType /\ r.todo = c.todo /\ Fits(r) /\ Granted(r)
  BY <1>1, RestIs
<1>3. GoOn(c) = IF r.body # <<>> THEN r
                ELSE IF c.todo = <<>> THEN [[r EXCEPT !.done = @ + 1] EXCEPT !.reply = "ok"]
                ELSE TakeUp([[r EXCEPT !.done = @ + 1] EXCEPT !.todo = Tail(@)], Head(c.todo))
  BY <1>1 DEF GoOn, Rest
<1>4. CASE r.body # <<>>
  <2>1. CallInv(r)
    BY <1>2, <1>4 DEF CallInv, Answered, Fits
  <2> QED
    BY <1>2, <1>3, <1>4, <2>1
<1>5. CASE r.body = <<>>
  <2>1. r.op \in Ops /\ r.reply = "none" /\ r.asked = r.done + 1 + Len(r.todo) /\ r.todo \in Seq(Thing)
    BY <1>2 DEF Fits, CallType
  <2>2. r.op # "Get" => r.made + r.missed = r.done + 1
    <3>1. Len(r.body) = 0
      BY <1>5
    <3>2. ~Ahead(r)
      BY <3>1 DEF Ahead
    <3> QED
      BY <1>2, <3>2 DEF Fits
  <2>3. r.op = "Get" => r.todo = <<>> /\ r.done = 0
    BY <1>2 DEF Fits
  <2>4. CASE r.todo = <<>>
    <3>1. PICK d : d = [[r EXCEPT !.done = @ + 1] EXCEPT !.reply = "ok"]
      OBVIOUS
    <3>2. r.done + 1 \in Nat
      BY <1>2 DEF CallType
    <3>3. d \in CallType
      BY <1>2, <3>1, <3>2 DEF CallType
    <3>4. /\ d.op = r.op /\ d.reply = "ok" /\ d.done = r.done + 1 /\ d.asked = r.asked /\ d.made = r.made
          /\ d.missed = r.missed /\ d.wrote = r.wrote /\ d.passed = r.passed /\ d.method = r.method
      BY <1>2, <3>1 DEF CallType
    <3>5. d.op # "Get" => d.done = d.asked /\ d.made + d.missed = d.done
      <4>1. r.done \in Nat /\ Len(r.todo) = 0
        BY <1>2, <2>4 DEF CallType
      <4> QED
        BY <2>1, <2>2, <3>4, <4>1
    <3>6. Granted(d)
      BY <1>2, <3>4 DEF Granted
    <3>7. CallInv(d)
      BY <3>3, <3>4, <3>5, <3>6 DEF CallInv, Answered
    <3> QED
      BY <1>2, <1>3, <1>5, <2>4, <3>1, <3>3, <3>7
  <2>5. CASE r.todo # <<>>
    <3>1. PICK d : d = [[r EXCEPT !.done = @ + 1] EXCEPT !.todo = Tail(@)]
      OBVIOUS
    <3>2. r.done + 1 \in Nat /\ r.done \in Nat
      BY <1>2 DEF CallType
    <3>3. Tail(r.todo) \in Seq(Thing) /\ Head(r.todo) \in Thing /\ Len(Tail(r.todo)) = Len(r.todo) - 1
          /\ Len(r.todo) \in Nat \ {0}
      BY <2>1, <2>5, TailIs
    <3>4. d \in CallType
      BY <1>2, <3>1, <3>2, <3>3 DEF CallType
    <3>5. /\ d.op = r.op /\ d.reply = "none" /\ d.done = r.done + 1 /\ d.asked = r.asked /\ d.made = r.made
          /\ d.missed = r.missed /\ d.todo = Tail(r.todo)
      BY <1>2, <2>1, <3>1 DEF CallType
    <3>6. d.asked = d.done + 1 + Len(d.todo) /\ d.made + d.missed = d.done /\ d.op # "Get" /\ d.op \in Ops
      BY <2>1, <2>2, <2>3, <2>5, <3>2, <3>3, <3>5
    <3>7. CallInv(TakeUp(d, Head(r.todo))) /\ TakeUp(d, Head(r.todo)) \in CallType
      BY <3>3, <3>4, <3>5, <3>6, TakeUpFits
    <3> QED
      BY <1>2, <1>3, <1>5, <2>5, <3>1, <3>7
  <2> QED
    BY <2>4, <2>5
<1> QED
  BY <1>4, <1>5

LEMMA ReturnsInv ==
  ASSUME NEW c \in CallType, c.op \in Ops, c.done < c.asked, c.made + c.missed \in {c.done, c.done + 1},
         c.wrote => Head(c.body) \in {"create", "save", "remove", "changedHook"}, Granted(c)
  PROVE  Returns(c) \in CallType /\ CallInv(Returns(c))
<1>1. PICK d : d = [c EXCEPT !.reply = "error", !.todo = <<>>]
  OBVIOUS
<1>2. d = Returns(c)
  BY <1>1 DEF Returns
<1>3. <<>> \in Seq(Thing)
  OBVIOUS
<1>4. d \in CallType
  BY <1>1, <1>3 DEF CallType
<1>5. /\ d.op = c.op /\ d.reply = "error" /\ d.done = c.done /\ d.asked = c.asked /\ d.made = c.made
      /\ d.missed = c.missed /\ d.wrote = c.wrote /\ d.passed = c.passed /\ d.method = c.method
      /\ d.body = c.body
  BY <1>1 DEF CallType
<1>6. Granted(d)
  BY <1>5 DEF Granted
<1> QED
  BY <1>2, <1>4, <1>5, <1>6 DEF CallInv, Answered

(* A statement that may refuse ends the call. *)
LEMMA ErrsInv ==
  ASSUME NEW c, Fits(c), Granted(c), c.body # <<>>, Head(c.body) # "uncheckedHook"
  PROVE  Returns(c) \in CallType /\ CallInv(Returns(c))
<1>1. c \in CallType /\ c.op \in Ops /\ c.asked = c.done + 1 + Len(c.todo)
      /\ c.done \in Nat /\ c.made \in Nat /\ c.missed \in Nat /\ c.todo \in Seq(Thing)
  BY DEF Fits, CallType
<1>2. c.done < c.asked
  <2>1. Len(c.todo) \in Nat
    BY <1>1
  <2> QED
    BY <1>1, <2>1
<1>3. c.made + c.missed \in {c.done, c.done + 1}
  BY <1>1 DEF Fits
<1>4. ASSUME c.wrote PROVE Head(c.body) = "changedHook"
  <2>1. Behind(c) /\ Head(c.body) = c.body[1]
    BY <1>4, HeadIs
  <2>2. c.body[1] \in Post
    BY <2>1, TailIs DEF Behind
  <2> QED
    BY <2>1, <2>2 DEF Post
<1> QED
  BY <1>1, <1>2, <1>3, <1>4, ReturnsInv

(* The invariant of a call is about it and the declaration.                *)
LEMMA MainAtSame ==
  ASSUME NEW c, NEW m, declared' = declared
  PROVE  MainAt(c, m) => MainAt(c, m)'
BY DEF MainAt, ReferenceGood, Good

LEMMA CallInvSame ==
  ASSUME NEW c, declared' = declared, CallInv(c)
  PROVE  CallInv(c)'
<1>1. Ahead(c) => Ahead(c)'
  BY MainAtSame DEF Ahead
<1>2. Behind(c) => Behind(c)'
  BY DEF Behind
<1>3. Fits(c) => Fits(c)'
  BY <1>1, <1>2 DEF Fits, CallType, Thing, Referred
<1>4. Granted(c) => Granted(c)'
  BY DEF Granted
<1>5. c \in CallType' /\ Answered(c)'
  BY DEF CallInv, Answered
<1> QED
  BY <1>3, <1>4, <1>5 DEF CallInv

LEMMA TurnsInv ==
  ASSUME MethodsInv, NEW a \in Actor, NEW d \in CallType, CallInv(d), Turns(a, d), declared' = declared
  PROVE  act' \in [Actor -> CallType] /\ \A b \in Actor : CallInv(act[b])'
<1>1. act \in [Actor -> CallType] /\ act' = [act EXCEPT ![a] = d]
  BY DEF MethodsInv, Turns
<1>2. act' \in [Actor -> CallType]
  BY <1>1
<1>3. ASSUME NEW b \in Actor PROVE CallInv(act[b])'
  <2>1. PICK e : e = IF b = a THEN d ELSE act[b]
    OBVIOUS
  <2>2. act'[b] = e
    BY <1>1, <2>1
  <2>3. CallInv(e)
    BY <2>1 DEF MethodsInv
  <2>4. CallInv(e)'
    BY <2>3, CallInvSame
  <2> QED
    BY <2>2, <2>4
<1> QED
  BY <1>2, <1>3

-----------------------------------------------------------------------------
LEMMA RunsFits ==
  ASSUME MethodsInv, NEW a \in Actor, NEW st, Runs(a, st)
  PROVE  /\ Fits(act[a]) /\ act[a].body # <<>> /\ Head(act[a].body) = st /\ Granted(act[a])
         /\ act[a] \in CallType /\ declared' = declared /\ declared \in DeclarationType
BY DEF MethodsInv, CallInv, Runs, Free, At

LEMMA PreGoes ==
  ASSUME NEW c, Fits(c), c.body # <<>>, Head(c.body) \in Pre, declared \in DeclarationType,
         NEW d \in CallType, Same(c, d),
         SameReference(c, d) \/ Head(c.body) = "changeHook",
         Head(c.body) = "valid" /\ declared.reference # "inherited" => ReferenceGood(d)
  PROVE  GoOn(d) \in CallType /\ CallInv(GoOn(d))
<1>1. ~c.wrote
  BY HeadIs
<1>2. Fits(Rest(d))
  BY PrepareFits
<1>3. d.body # <<>> /\ Rest(d).wrote = c.wrote
  BY RestIs DEF Same
<1>4. Granted(Rest(d))
  BY <1>1, <1>3 DEF Granted
<1> QED
  BY <1>2, <1>3, <1>4, GoOnInv

LEMMA PreGoesOn ==
  ASSUME NEW c, Fits(c), c.body # <<>>, Head(c.body) \in Pre, Head(c.body) # "valid",
         declared \in DeclarationType
  PROVE  GoOn(c) \in CallType /\ CallInv(GoOn(c))
<1>1. c \in CallType /\ Same(c, c) /\ SameReference(c, c)
  BY DEF Fits, Same, SameReference
<1> QED
  BY <1>1, PreGoes

LEMMA PostGoesOn ==
  ASSUME NEW c, Fits(c), Granted(c), c.body # <<>>, Head(c.body) \in Post, declared \in DeclarationType
  PROVE  GoOn(c) \in CallType /\ CallInv(GoOn(c))
<1>1. Fits(Rest(c)) /\ c \in CallType
  BY FollowFits DEF Fits
<1>2. PICK r : r = Rest(c)
  OBVIOUS
<1>3. r.wrote = c.wrote /\ r.method = c.method /\ c.passed \subseteq r.passed
  BY <1>1, <1>2, RestIs
<1>4. Granted(r)
  BY <1>3 DEF Granted
<1> QED
  BY <1>1, <1>2, <1>4, GoOnInv

LEMMA StepInv ==
  ASSUME MethodsInv, NEW a \in Actor, NEW d \in CallType, CallInv(d), Turns(a, d), declared' = declared,
         items' = items, lastId' \in DocId, documents' \in [DocId -> Referred \cup {NoThing}],
         ReferencesExplained'
  PROVE  MethodsInv'
<1>1. act' \in [Actor -> CallType] /\ \A b \in Actor : CallInv(act[b])'
  BY TurnsInv
<1>2. declared \in DeclarationType /\ items \subseteq Reference
  BY DEF MethodsInv
<1>3. act' \in [Actor -> CallType'] /\ DocId' = DocId /\ DeclarationType' = DeclarationType /\ Referred' = Referred
  BY <1>1 DEF CallType, Thing, DocId, DeclarationType, Referred
<1> QED
  BY <1>1, <1>2, <1>3 DEF MethodsInv

(* The documents stay what they are. *)
LEMMA QuietInv ==
  ASSUME MethodsInv, NEW a \in Actor, NEW d \in CallType, CallInv(d), Turns(a, d), declared' = declared,
         items' = items, lastId' \in DocId, documents' = documents
  PROVE  MethodsInv'
<1>1. documents' \in [DocId -> Referred \cup {NoThing}]
  BY DEF MethodsInv
<1>2. ReferencesExplained'
  BY DEF MethodsInv, ReferencesExplained, There
<1> QED
  BY <1>1, <1>2, StepInv

LEMMA LastIdIs ==
  ASSUME MethodsInv, lastId' = lastId
  PROVE  lastId' \in DocId
BY DEF MethodsInv

-----------------------------------------------------------------------------
LEMMA CheckInv ==
  ASSUME MethodsInv, NEW a \in Actor, Check(a)
  PROVE  MethodsInv'
<1>1. PICK m \in DOMAIN Access : Runs(a, Access[m])
  BY DEF Check
<1>2. Access[m] \in Pre /\ Access[m] # "valid" /\ Access[m] # "uncheckedHook"
  BY <1>1, AccessIs DEF Access, Pre
<1>3. UNCHANGED <<documents, items, lastId>> /\ (Goes(a) \/ Errs(a)) /\ lastId' \in DocId
  BY LastIdIs DEF Check
<1>4. PICK c : c = act[a]
  OBVIOUS
<1>5. Fits(c) /\ c.body # <<>> /\ Head(c.body) = Access[m] /\ Granted(c)
      /\ declared' = declared /\ declared \in DeclarationType
  BY <1>1, <1>4, RunsFits
<1>6. CASE Goes(a)
  BY <1>2, <1>3, <1>4, <1>5, <1>6, PreGoesOn, QuietInv DEF Goes
<1>7. CASE Errs(a)
  BY <1>2, <1>3, <1>4, <1>5, <1>7, ErrsInv, QuietInv DEF Errs
<1> QED
  BY <1>3, <1>6, <1>7

LEMMA LoadInv ==
  ASSUME MethodsInv, NEW a \in Actor, Load(a)
  PROVE  MethodsInv'
<1>1. Runs(a, "load") /\ UNCHANGED <<documents, items, lastId>> /\ lastId' \in DocId
  BY LastIdIs DEF Load
<1>2. PICK c : c = act[a]
  OBVIOUS
<1>3. Fits(c) /\ c \in CallType /\ c.body # <<>> /\ Head(c.body) = "load" /\ Granted(c)
      /\ declared' = declared /\ declared \in DeclarationType
  BY <1>1, <1>2, RunsFits
<1>4. CASE Turns(a, GoOn([act[a] EXCEPT !.loaded = There(act[a].obj.id)]))
  <2>1. PICK l : l = There(act[a].obj.id)
    OBVIOUS
  <2>2. l \in BOOLEAN
    BY <2>1 DEF There
  <2>3. PICK d : d = [c EXCEPT !.loaded = l]
    OBVIOUS
  <2>4. d \in CallType
    BY <1>3, <2>2, <2>3 DEF CallType
  <2>5. Same(c, d) /\ SameReference(c, d)
    BY <1>3, <2>3 DEF CallType, Same, SameReference
  <2>6. GoOn(d) \in CallType /\ CallInv(GoOn(d))
    <3>1. Head(c.body) \in Pre /\ Head(c.body) # "valid"
      BY <1>3 DEF Pre
    <3> QED
      BY <1>3, <2>4, <2>5, <3>1, PreGoes
  <2> QED
    BY <1>1, <1>2, <1>3, <1>4, <2>1, <2>3, <2>6, QuietInv
<1>5. CASE Fails(a)
  BY <1>1, <1>2, <1>3, <1>5, ErrsInv, QuietInv DEF Fails, Errs
<1> QED
  BY <1>4, <1>5 DEF Load

LEMMA FoundInv ==
  ASSUME MethodsInv, NEW a \in Actor, Found(a)
  PROVE  MethodsInv'
<1>1. Runs(a, "found") /\ UNCHANGED <<documents, items, lastId>> /\ lastId' \in DocId
      /\ (Goes(a) \/ Errs(a))
  BY LastIdIs DEF Found
<1>2. PICK c : c = act[a]
  OBVIOUS
<1>3. Fits(c) /\ c.body # <<>> /\ Head(c.body) = "found" /\ Granted(c)
      /\ declared' = declared /\ declared \in DeclarationType
  BY <1>1, <1>2, RunsFits
<1>4. "found" \in Pre
  BY DEF Pre
<1>5. CASE Goes(a)
  BY <1>1, <1>2, <1>3, <1>4, <1>5, PreGoesOn, QuietInv DEF Goes
<1>6. CASE Errs(a)
  BY <1>1, <1>2, <1>3, <1>6, ErrsInv, QuietInv DEF Errs
<1> QED
  BY <1>1, <1>5, <1>6

LEMMA IdentifiedInv ==
  ASSUME MethodsInv, NEW a \in Actor, Identified(a)
  PROVE  MethodsInv'
<1>1. Runs(a, "identified") /\ UNCHANGED <<documents, items, lastId>> /\ lastId' \in DocId
      /\ (Goes(a) \/ Errs(a))
  BY LastIdIs DEF Identified
<1>2. PICK c : c = act[a]
  OBVIOUS
<1>3. Fits(c) /\ c.body # <<>> /\ Head(c.body) = "identified" /\ Granted(c)
      /\ declared' = declared /\ declared \in DeclarationType
  BY <1>1, <1>2, RunsFits
<1>4. "identified" \in Pre
  BY DEF Pre
<1>5. CASE Goes(a)
  BY <1>1, <1>2, <1>3, <1>4, <1>5, PreGoesOn, QuietInv DEF Goes
<1>6. CASE Errs(a)
  BY <1>1, <1>2, <1>3, <1>6, ErrsInv, QuietInv DEF Errs
<1> QED
  BY <1>1, <1>5, <1>6

LEMMA GenerateInv ==
  ASSUME MethodsInv, NEW a \in Actor, Generate(a)
  PROVE  MethodsInv'
<1>1. Runs(a, "generate") /\ UNCHANGED <<documents, items>>
  BY DEF Generate
<1>2. PICK c : c = act[a]
  OBVIOUS
<1>3. Fits(c) /\ c \in CallType /\ c.body # <<>> /\ Head(c.body) = "generate" /\ Granted(c)
      /\ declared' = declared /\ declared \in DeclarationType
  BY <1>1, <1>2, RunsFits
<1>4. Head(c.body) \in Pre /\ Head(c.body) # "valid" /\ Head(c.body) # "uncheckedHook"
  BY <1>3 DEF Pre
<1>5. CASE Goes(a) /\ UNCHANGED lastId
  BY <1>1, <1>2, <1>3, <1>4, <1>5, PreGoesOn, QuietInv, LastIdIs DEF Goes
<1>6. CASE /\ lastId < MaxId /\ lastId' = lastId + 1
           /\ Turns(a, GoOn([act[a] EXCEPT !.obj.id = lastId + 1]))
  <2>1. lastId \in 1..MaxId /\ MaxId \in Nat
    BY MethodsBoundAssumption DEF MethodsInv, DocId
  <2>2. lastId' \in DocId
    BY <1>6, <2>1 DEF DocId
  <2>3. PICK n : n = lastId + 1
    OBVIOUS
  <2>4. PICK o : o = [c.obj EXCEPT !.id = n]
    OBVIOUS
  <2>5. PICK d : d = [c EXCEPT !.obj = o]
    OBVIOUS
  <2>6. [act[a] EXCEPT !.obj.id = lastId + 1] = d
    BY <1>2, <2>3, <2>4, <2>5
  <2>7. c.obj \in Thing
    BY <1>3 DEF CallType
  <2>8. o \in Thing /\ o.ref = c.obj.ref
    BY <1>6, <2>2, <2>3, <2>4, <2>7 DEF Thing
  <2>9. d \in CallType /\ d.obj = o
    BY <1>3, <2>5, <2>8 DEF CallType
  <2>10. Same(c, d)
    BY <1>3, <2>5 DEF CallType, Same
  <2>11. SameReference(c, d)
    BY <2>8, <2>9 DEF SameReference
  <2>12. GoOn(d) \in CallType /\ CallInv(GoOn(d))
    BY <1>3, <1>4, <2>9, <2>10, <2>11, PreGoes
  <2> QED
    BY <1>1, <1>3, <1>6, <2>2, <2>6, <2>12, QuietInv
<1>7. CASE Fails(a) /\ UNCHANGED lastId
  BY <1>1, <1>2, <1>3, <1>4, <1>7, ErrsInv, QuietInv, LastIdIs DEF Fails, Errs
<1> QED
  BY <1>5, <1>6, <1>7 DEF Generate

LEMMA ChangeHookInv ==
  ASSUME MethodsInv, NEW a \in Actor, ChangeHook(a)
  PROVE  MethodsInv'
<1>1. Runs(a, "changeHook") /\ UNCHANGED <<documents, items, lastId>> /\ lastId' \in DocId
  BY LastIdIs DEF ChangeHook
<1>2. PICK c : c = act[a]
  OBVIOUS
<1>3. Fits(c) /\ c \in CallType /\ c.body # <<>> /\ Head(c.body) = "changeHook" /\ Granted(c)
      /\ declared' = declared /\ declared \in DeclarationType
  BY <1>1, <1>2, RunsFits
<1>4. ASSUME NEW r \in Referred, Turns(a, GoOn([act[a] EXCEPT !.obj.ref = r])) PROVE MethodsInv'
  <2>1. PICK o : o = [c.obj EXCEPT !.ref = r]
    OBVIOUS
  <2>2. PICK d : d = [c EXCEPT !.obj = o]
    OBVIOUS
  <2>3. [act[a] EXCEPT !.obj.ref = r] = d
    BY <1>2, <2>1, <2>2
  <2>4. c.obj \in Thing
    BY <1>3 DEF CallType
  <2>5. o \in Thing
    BY <2>1, <2>4 DEF Thing
  <2>6. d \in CallType
    BY <1>3, <2>2, <2>5 DEF CallType
  <2>7. Same(c, d)
    BY <1>3, <2>2 DEF CallType, Same
  <2>8. Head(c.body) \in Pre /\ Head(c.body) # "valid"
    BY <1>3 DEF Pre
  <2>9. GoOn(d) \in CallType /\ CallInv(GoOn(d))
    BY <1>3, <2>6, <2>7, <2>8, PreGoes
  <2> QED
    BY <1>1, <1>3, <1>4, <2>3, <2>9, QuietInv
<1>5. CASE Errs(a)
  BY <1>1, <1>2, <1>3, <1>5, ErrsInv, QuietInv DEF Errs
<1> QED
  BY <1>4, <1>5 DEF ChangeHook

LEMMA OtherHookInv ==
  ASSUME MethodsInv, NEW a \in Actor, OtherHook(a)
  PROVE  MethodsInv'
<1>1. UNCHANGED <<documents, items, lastId>> /\ lastId' \in DocId /\ (Goes(a) \/ Errs(a))
  BY LastIdIs DEF OtherHook
<1>2. PICK st \in {"deleteHook", "changedHook"} : Runs(a, st)
  BY DEF OtherHook
<1>3. PICK c : c = act[a]
  OBVIOUS
<1>4. Fits(c) /\ c.body # <<>> /\ Head(c.body) = st /\ Granted(c)
      /\ declared' = declared /\ declared \in DeclarationType
  BY <1>2, <1>3, RunsFits
<1>5. GoOn(c) \in CallType /\ CallInv(GoOn(c))
  <2>1. CASE st = "deleteHook"
    <3>1. Head(c.body) \in Pre /\ Head(c.body) # "valid"
      BY <1>4, <2>1 DEF Pre
    <3> QED
      BY <1>4, <3>1, PreGoesOn
  <2>2. CASE st = "changedHook"
    <3>1. Head(c.body) \in Post
      BY <1>4, <2>2 DEF Post
    <3> QED
      BY <1>4, <3>1, PostGoesOn
  <2> QED
    BY <1>2, <2>1, <2>2
<1>6. CASE Goes(a)
  BY <1>1, <1>3, <1>4, <1>5, <1>6, QuietInv DEF Goes
<1>7. CASE Errs(a)
  <2>1. Head(c.body) # "uncheckedHook"
    BY <1>2, <1>4
  <2> QED
    BY <1>1, <1>3, <1>4, <1>7, <2>1, ErrsInv, QuietInv DEF Errs
<1> QED
  BY <1>1, <1>6, <1>7

LEMMA PlainInv ==
  ASSUME MethodsInv, NEW a \in Actor, Plain(a)
  PROVE  MethodsInv'
<1>1. UNCHANGED <<documents, items, lastId>> /\ lastId' \in DocId /\ Goes(a)
  BY LastIdIs DEF Plain
<1>2. PICK st \in {"times", "uncheckedHook"} : Runs(a, st)
  BY DEF Plain
<1>3. PICK c : c = act[a]
  OBVIOUS
<1>4. Fits(c) /\ c.body # <<>> /\ Head(c.body) = st /\ Granted(c)
      /\ declared' = declared /\ declared \in DeclarationType
  BY <1>2, <1>3, RunsFits
<1>5. GoOn(c) \in CallType /\ CallInv(GoOn(c))
  <2>1. CASE st = "times"
    <3>1. Head(c.body) \in Pre /\ Head(c.body) # "valid"
      BY <1>4, <2>1 DEF Pre
    <3> QED
      BY <1>4, <3>1, PreGoesOn
  <2>2. CASE st = "uncheckedHook"
    <3>1. Head(c.body) \in Post
      BY <1>4, <2>2 DEF Post
    <3> QED
      BY <1>4, <3>1, PostGoesOn
  <2> QED
    BY <1>2, <2>1, <2>2
<1> QED
  BY <1>1, <1>3, <1>4, <1>5, QuietInv DEF Goes

LEMMA ValidInv ==
  ASSUME MethodsInv, NEW a \in Actor, Valid(a)
  PROVE  MethodsInv'
<1>1. Runs(a, "valid") /\ UNCHANGED <<documents, items, lastId>> /\ lastId' \in DocId
  BY LastIdIs DEF Valid
<1>2. PICK c : c = act[a]
  OBVIOUS
<1>3. Fits(c) /\ c \in CallType /\ c.body # <<>> /\ Head(c.body) = "valid" /\ Granted(c)
      /\ declared' = declared /\ declared \in DeclarationType
  BY <1>1, <1>2, RunsFits
<1>4. PICK r : r = c.obj.ref
  OBVIOUS
<1>5. CASE Goes(a) /\ (r \in items \/ (r = NoReference /\ declared.reference = "nullable"))
  <2>1. ReferenceGood(c)
    BY <1>4, <1>5 DEF MethodsInv, ReferenceGood, Good
  <2>2. Same(c, c) /\ SameReference(c, c) /\ Head(c.body) \in Pre
    BY <1>3 DEF Same, SameReference, Pre
  <2>3. GoOn(c) \in CallType /\ CallInv(GoOn(c))
    BY <1>3, <2>1, <2>2, PreGoes
  <2> QED
    BY <1>1, <1>2, <1>3, <1>5, <2>3, QuietInv DEF Goes
<1>6. CASE Errs(a)
  BY <1>1, <1>2, <1>3, <1>6, ErrsInv, QuietInv DEF Errs
<1>7. CASE Fails(a)
  BY <1>1, <1>2, <1>3, <1>7, ErrsInv, QuietInv DEF Fails, Errs
<1> QED
  BY <1>2, <1>4, <1>5, <1>6, <1>7 DEF Valid

-----------------------------------------------------------------------------
(* The main action with its effect on document i, or without.              *)
LEMMA EffectInv ==
  ASSUME MethodsInv, NEW a \in Actor, NEW st \in {"create", "save", "remove"}, Runs(a, st),
         NEW i, NEW r \in Referred \cup {NoThing}, NEW takes \in BOOLEAN, Effect(a, i, r, takes),
         takes /\ declared.reference # "inherited" => Good(r) \/ r = NoThing,
         UNCHANGED <<items, lastId>>
  PROVE  MethodsInv'
<1>1. PICK c : c = act[a]
  OBVIOUS
<1>2. Fits(c) /\ c \in CallType /\ c.body # <<>> /\ Head(c.body) = st /\ Granted(c)
      /\ declared' = declared /\ declared \in DeclarationType
  BY <1>1, RunsFits
<1>3. PICK d : d = IF takes THEN [c EXCEPT !.wrote = TRUE, !.made = @ + 1] ELSE [c EXCEPT !.missed = @ + 1]
  OBVIOUS
<1>4. c.made \in Nat /\ c.missed \in Nat /\ c.made + 1 \in Nat /\ c.missed + 1 \in Nat
  BY <1>2 DEF CallType
<1>5. d \in CallType
  BY <1>2, <1>3, <1>4 DEF CallType
<1>6. /\ d.op = c.op /\ d.method = c.method /\ d.body = c.body /\ d.todo = c.todo /\ d.passed = c.passed
      /\ d.asked = c.asked /\ d.done = c.done /\ d.reply = c.reply
  BY <1>2, <1>3 DEF CallType
<1>7. d.made + d.missed = c.made + c.missed + 1
  <2>1. CASE takes
    <3>1. d.made = c.made + 1 /\ d.missed = c.missed
      BY <1>2, <1>3, <2>1 DEF CallType
    <3> QED
      BY <1>4, <3>1
  <2>2. CASE ~takes
    <3>1. d.made = c.made /\ d.missed = c.missed + 1
      BY <1>2, <1>3, <2>2 DEF CallType
    <3> QED
      BY <1>4, <3>1
  <2> QED
    BY <2>1, <2>2
<1>8. GoOn(d) \in CallType /\ CallInv(GoOn(d))
  <2>1. Fits(Rest(d)) /\ Granted(Rest(d))
    BY <1>2, <1>5, <1>6, <1>7, MainFits
  <2> QED
    BY <1>2, <1>5, <1>6, <2>1, GoOnInv
<1>9. Returns(d) \in CallType /\ CallInv(Returns(d))
  <2>1. c.made + c.missed = c.done /\ (declared.checked => Needed[c.method] \subseteq c.passed)
    BY <1>2, MainIsNext
  <2>2. Granted(d)
    BY <1>6, <2>1 DEF Granted
  <2>3. d.made + d.missed \in {d.done, d.done + 1}
    BY <1>6, <1>7, <2>1
  <2>4. d.op \in Ops /\ d.done < d.asked
    <3>1. c.op \in Ops /\ c.asked = c.done + 1 + Len(c.todo) /\ Len(c.todo) \in Nat /\ c.done \in Nat
      BY <1>2 DEF Fits, CallType
    <3> QED
      BY <1>6, <3>1
  <2>5. Head(d.body) \in {"create", "save", "remove"}
    BY <1>2, <1>6
  <2> QED
    BY <1>5, <2>2, <2>3, <2>4, <2>5, ReturnsInv
<1>10. documents' = IF takes THEN [documents EXCEPT ![i] = r] ELSE documents
  BY DEF Effect
<1>11. documents \in [DocId -> Referred \cup {NoThing}]
  BY DEF MethodsInv
<1>12. documents' \in [DocId -> Referred \cup {NoThing}]
  BY <1>10, <1>11
<1>13. ReferencesExplained'
  <2>1. SUFFICES ASSUME declared.reference # "inherited", NEW j \in DocId, documents'[j] # NoThing
                 PROVE  \/ documents'[j] \in Reference
                        \/ documents'[j] = NoReference /\ declared.reference = "nullable"
    BY <1>2 DEF ReferencesExplained, There, DocId
  <2>2. CASE takes /\ j = i
    <3>1. documents'[j] = r
      BY <1>10, <1>11, <2>2
    <3> QED
      BY <2>1, <2>2, <3>1 DEF Good
  <2>3. CASE ~(takes /\ j = i)
    <3>1. documents'[j] = documents[j]
      BY <1>10, <1>11, <2>3
    <3> QED
      BY <2>1, <3>1 DEF MethodsInv, ReferencesExplained, There
  <2> QED
    BY <2>2, <2>3
<1>14. lastId' \in DocId
  BY LastIdIs
<1>15. Turns(a, GoOn(d)) \/ Turns(a, Returns(d))
  BY <1>1, <1>3 DEF Effect
<1> QED
  BY <1>2, <1>8, <1>9, <1>12, <1>13, <1>14, <1>15, StepInv

(* The main action does not reach the database, or it refuses.             *)
LEMMA MainErrs ==
  ASSUME MethodsInv, NEW a \in Actor, NEW st \in {"create", "save", "remove"}, Runs(a, st), Errs(a),
         UNCHANGED <<documents, items, lastId>>
  PROVE  MethodsInv'
<1>1. PICK c : c = act[a]
  OBVIOUS
<1>2. Fits(c) /\ c.body # <<>> /\ Head(c.body) = st /\ Granted(c) /\ declared' = declared
  BY <1>1, RunsFits
<1>3. Returns(c) \in CallType /\ CallInv(Returns(c))
  BY <1>2, ErrsInv
<1> QED
  BY <1>1, <1>2, <1>3, QuietInv, LastIdIs DEF Errs

(* What the main action is about to write.                                 *)
LEMMA MainReference ==
  ASSUME MethodsInv, NEW a \in Actor, NEW st \in {"create", "save"}, Runs(a, st)
  PROVE  /\ act[a].obj.ref \in Referred
         /\ declared.reference # "inherited" => Good(act[a].obj.ref)
<1>1. PICK c : c = act[a]
  OBVIOUS
<1>2. Fits(c) /\ c \in CallType /\ c.body # <<>> /\ Head(c.body) = st
  BY <1>1, RunsFits
<1>3. c.method \in Changing /\ Main[c.method] = st
      /\ (declared.reference # "inherited" /\ c.method # "Delete" => ReferenceGood(c))
  BY <1>2, MainIsNext
<1>4. c.method # "Delete"
  BY <1>3 DEF Main
<1>5. c.obj \in Thing
  BY <1>2 DEF CallType
<1> QED
  BY <1>1, <1>3, <1>4, <1>5 DEF ReferenceGood, Thing

LEMMA CreateInv ==
  ASSUME MethodsInv, NEW a \in Actor, Create(a)
  PROVE  MethodsInv'
<1>1. Runs(a, "create") /\ UNCHANGED <<items, lastId>>
  BY DEF Create
<1>2. PICK r : r = act[a].obj.ref
  OBVIOUS
<1>3. r \in Referred /\ (declared.reference # "inherited" => Good(r))
  BY <1>1, <1>2, MainReference
<1>4. CASE Effect(a, act[a].obj.id, r, TRUE)
  BY <1>1, <1>3, <1>4, EffectInv
<1>5. CASE Errs(a) /\ UNCHANGED documents
  BY <1>1, <1>5, MainErrs
<1> QED
  BY <1>2, <1>4, <1>5 DEF Create, Fails

LEMMA SaveThingInv ==
  ASSUME MethodsInv, NEW a \in Actor, SaveThing(a)
  PROVE  MethodsInv'
<1>1. Runs(a, "save") /\ UNCHANGED <<items, lastId>>
  BY DEF SaveThing
<1>2. PICK r : r = act[a].obj.ref
  OBVIOUS
<1>3. PICK t : t = There(act[a].obj.id)
  OBVIOUS
<1>4. t \in BOOLEAN
  BY <1>3 DEF There
<1>5. r \in Referred /\ (declared.reference # "inherited" => Good(r))
  BY <1>1, <1>2, MainReference
<1>6. CASE Effect(a, act[a].obj.id, r, t)
  BY <1>1, <1>4, <1>5, <1>6, EffectInv
<1>7. CASE Errs(a) /\ UNCHANGED documents
  BY <1>1, <1>7, MainErrs
<1> QED
  BY <1>2, <1>3, <1>6, <1>7 DEF SaveThing, Fails

LEMMA RemoveThingInv ==
  ASSUME MethodsInv, NEW a \in Actor, RemoveThing(a)
  PROVE  MethodsInv'
<1>1. Runs(a, "remove") /\ UNCHANGED <<items, lastId>>
  BY DEF RemoveThing
<1>2. PICK t : t = There(act[a].obj.id)
  OBVIOUS
<1>3. t \in BOOLEAN
  BY <1>2 DEF There
<1>4. CASE Effect(a, act[a].obj.id, NoThing, t)
  BY <1>1, <1>3, <1>4, EffectInv
<1>5. CASE Errs(a) /\ UNCHANGED documents
  BY <1>1, <1>5, MainErrs
<1> QED
  BY <1>2, <1>4, <1>5 DEF RemoveThing, Fails

-----------------------------------------------------------------------------
LEMMA CallStepInv ==
  ASSUME MethodsInv, NEW a \in Actor, NEW op \in Ops, NEW objects \in Seq(Thing), objects # <<>>,
         op = "Get" => Tail(objects) = <<>>, Call(a, op, objects)
  PROVE  MethodsInv'
<1>1. /\ Tail(objects) \in Seq(Thing) /\ Head(objects) \in Thing /\ Len(objects) \in Nat \ {0}
      /\ Len(Tail(objects)) = Len(objects) - 1
  BY TailIs
<1>2. PICK n : n = Len(objects)
  OBVIOUS
<1>3. PICK t : t = Tail(objects)
  OBVIOUS
<1>4. PICK c : c = [Uncalled EXCEPT !.op = op, !.asked = n, !.todo = t]
  OBVIOUS
<1>5. Uncalled \in CallType
  <2>1. Nothing \in Thing /\ <<>> \in Seq(Statement) /\ <<>> \in Seq(Thing)
    BY DEF Nothing, Thing, Referred
  <2> QED
    BY <2>1 DEF Uncalled, CallType
<1>6. c \in CallType
  BY <1>1, <1>2, <1>3, <1>4, <1>5 DEF CallType
<1>7. PICK u \in CallType : u = Uncalled
  BY <1>5
<1>8. u.reply = "none" /\ u.done = 0 /\ u.made = 0 /\ u.missed = 0
  BY <1>7 DEF Uncalled
<1>9. /\ c.op = op /\ c.asked = n /\ c.todo = t /\ c.reply = "none"
      /\ c.done = 0 /\ c.made = 0 /\ c.missed = 0
  BY <1>4, <1>7, <1>8 DEF CallType
<1>10. c.asked = c.done + 1 + Len(c.todo) /\ c.made + c.missed = c.done
  BY <1>1, <1>2, <1>3, <1>9
<1>11. TakeUp(c, Head(objects)) \in CallType /\ CallInv(TakeUp(c, Head(objects)))
  BY <1>1, <1>3, <1>6, <1>9, <1>10, TakeUpFits DEF MethodsInv
<1>12. Turns(a, TakeUp(c, Head(objects))) /\ UNCHANGED <<declared, documents, items, lastId>>
  BY <1>2, <1>3, <1>4 DEF Call
<1> QED
  BY <1>11, <1>12, QuietInv, LastIdIs

LEMMA OneThing ==
  ASSUME NEW o \in Thing
  PROVE  <<o>> \in Seq(Thing) /\ <<o>> # <<>> /\ Tail(<<o>>) = <<>>
<1>1. <<o>> \in Seq(Thing) /\ Len(<<o>>) = 1
  BY Singles
<1>2. <<o>> # <<>>
  BY <1>1
<1>3. Tail(<<o>>) \in Seq(Thing) /\ Len(Tail(<<o>>)) = 0
  BY <1>1, <1>2, TailIs
<1>4. Tail(<<o>>) = <<>>
  BY <1>3
<1> QED
  BY <1>1, <1>2, <1>4

LEMMA CallsInv ==
  ASSUME MethodsInv, NEW a \in Actor,
         \/ \E i \in DocId : Call(a, "Get", <<[id |-> i, ref |-> NoReference]>>)
                             \/ Call(a, "Delete", <<[id |-> i, ref |-> NoReference]>>)
         \/ \E o \in Thing : Call(a, "New", <<o>>) \/ Call(a, "Set", <<o>>)
         \/ \E os \in BulkInputs : Call(a, "NewBulk", os) \/ Call(a, "SetBulk", os)
  PROVE  MethodsInv'
<1>1. ASSUME NEW o \in Thing, NEW op \in {"Get", "Delete", "New", "Set"}, Call(a, op, <<o>>)
      PROVE  MethodsInv'
  <2>1. op \in Ops
    BY <1>1 DEF Ops
  <2> QED
    BY <1>1, <2>1, OneThing, CallStepInv
<1>2. ASSUME NEW i \in DocId PROVE [id |-> i, ref |-> NoReference] \in Thing
  BY DEF Thing, Referred
<1>3. ASSUME NEW os \in BulkInputs, NEW op \in {"NewBulk", "SetBulk"}, Call(a, op, os)
      PROVE  MethodsInv'
  <2>1. op \in Ops /\ op # "Get" /\ os \in Seq(Thing) /\ os # <<>>
    BY <1>3, BulkAssumption DEF Ops
  <2> QED
    BY <1>3, <2>1, CallStepInv
<1> QED
  BY <1>1, <1>2, <1>3

(* Nothing of the calls changes: an item is deleted, or nothing happens.   *)
LEMMA UncalledInv ==
  ASSUME MethodsInv, UNCHANGED <<declared, documents, lastId, act>>, items' \subseteq items
  PROVE  MethodsInv'
<1>1. ASSUME NEW b \in Actor PROVE CallInv(act[b])'
  <2>1. PICK e : e = act[b]
    OBVIOUS
  <2>2. CallInv(e) /\ declared' = declared /\ act'[b] = e
    BY <2>1 DEF MethodsInv
  <2>3. CallInv(e)'
    BY <2>2, CallInvSame
  <2> QED
    BY <2>2, <2>3
<1>2. ReferencesExplained'
  BY DEF MethodsInv, ReferencesExplained, There
<1>3. CallType' = CallType /\ DocId' = DocId /\ DeclarationType' = DeclarationType /\ Referred' = Referred
  BY DEF CallType, Thing, DocId, DeclarationType, Referred
<1> QED
  BY <1>1, <1>2, <1>3 DEF MethodsInv

LEMMA MethodsNextInv ==
  ASSUME MethodsInv, [MethodsNext]_methodVars
  PROVE  MethodsInv'
<1>1. ASSUME NEW a \in Actor,
             \/ Check(a) \/ Load(a) \/ Found(a) \/ Generate(a) \/ ChangeHook(a) \/ OtherHook(a) \/ Plain(a)
             \/ Identified(a) \/ Valid(a) \/ Create(a) \/ SaveThing(a) \/ RemoveThing(a)
      PROVE  MethodsInv'
  BY <1>1, CheckInv, LoadInv, FoundInv, GenerateInv, ChangeHookInv, OtherHookInv, PlainInv,
     IdentifiedInv, ValidInv, CreateInv, SaveThingInv, RemoveThingInv
<1>2. ASSUME NEW r \in Reference, DeleteItem(r) PROVE MethodsInv'
  BY <1>2, UncalledInv DEF DeleteItem
<1>3. CASE UNCHANGED methodVars
  BY <1>3, UncalledInv DEF methodVars
<1> QED
  BY <1>1, <1>2, <1>3, CallsInv DEF MethodsNext

LEMMA MethodsInitInv ==
  ASSUME MethodsInit
  PROVE  MethodsInv
<1>1. declared \in DeclarationType /\ items \subseteq Reference
  BY DeclarationAssumption DEF MethodsInit
<1>2. lastId \in DocId
  BY MethodsBoundAssumption DEF MethodsInit, DocId
<1>3. PICK r \in Reference : documents = [i \in DocId |-> IF i = 1 THEN r ELSE NoThing]
  BY DEF MethodsInit
<1>4. documents \in [DocId -> Referred \cup {NoThing}] /\ ReferencesExplained
  BY <1>3 DEF Referred, ReferencesExplained, There
<1>5. Uncalled \in CallType
  <2>1. Nothing \in Thing /\ <<>> \in Seq(Statement) /\ <<>> \in Seq(Thing)
    BY DEF Nothing, Thing, Referred
  <2> QED
    BY <2>1 DEF Uncalled, CallType
<1>6. PICK u \in CallType : u = Uncalled
  BY <1>5
<1>7. u.reply = "none" /\ u.op = "none" /\ ~u.wrote
  BY <1>6 DEF Uncalled
<1>8. CallInv(u)
  BY <1>7 DEF CallInv, Granted, Answered
<1>9. act = [a \in Actor |-> u]
  BY <1>6 DEF MethodsInit
<1> QED
  BY <1>1, <1>2, <1>4, <1>8, <1>9 DEF MethodsInv

(* The body of every call under way is what is left of one the generator   *)
(* writes: what its main action needs has been done or is still ahead of   *)
(* it, and the counts are those of the objects behind (no_cache.go).       *)
THEOREM MethodsAreWellFormed == MethodsSpec => []MethodsInv
<1>1. MethodsInit => MethodsInv
  BY MethodsInitInv
<1>2. MethodsInv /\ [MethodsNext]_methodVars => MethodsInv'
  BY MethodsNextInv
<1> QED
  BY <1>1, <1>2, PTL DEF MethodsSpec

(* A method's fragments keep what they are for, whatever the declaration   *)
(* and however the calls overlap: no change without the accesses asked for *)
(* (resource.go), no reference to what never was (validator.go), and no    *)
(* answer that hides an effect (no_cache.go).                              *)
THEOREM MethodsAreExplained == MethodsSpec => []MethodsExplained
<1>1. MethodsInv => MethodsExplained
  <2> SUFFICES ASSUME MethodsInv PROVE MethodsExplained
    OBVIOUS
  <2>1. ReferencesExplained
    BY DEF MethodsInv
  <2>2. AccessExplained
    BY DEF MethodsInv, CallInv, Granted, AccessExplained
  <2>3. RepliesExplained
    BY DEF MethodsInv, CallInv, Answered, RepliesExplained
  <2> QED
    BY <2>1, <2>2, <2>3 DEF MethodsExplained
<1> QED
  BY <1>1, MethodsAreWellFormed, PTL

-----------------------------------------------------------------------------
Stored == FieldValue \cup {Default}
ConfigObject == [Field -> Stored]
ConfigCall ==
  [at : {"rest", "get", "load", "assign", "return", "parse", "set", "save", "assignBack", "wrapper",
         "again", "panic"},
   for : {"", "start", "query", "mutate", "ConfValue", "SetConfValue"},
   object : Nat, input : Inputs \cup {<<>>}, next : Nat, failed : BOOLEAN]

ConfigTypeOK ==
  /\ document \in ConfigObject /\ heap \in Seq(ConfigObject) /\ attribute \in 0..Len(heap)
  /\ provider \in {"unset", "registered", "absent"}
  /\ running \in [Caller -> ConfigCall]
  /\ failures \in Nat /\ unsaved \subseteq Field /\ overlapped \in BOOLEAN

(* Where a call r may be, whatever else is under way. *)
CallFits(r) ==
  /\ r.object <= Len(heap)
  /\ r.for = "start" => provider = "unset" /\ r.at \in {"get", "load", "assign", "return"}
  /\ r.at \in {"wrapper", "again"} => provider = "registered"
  /\ r.at = "parse" => r.for = "mutate"
  /\ r.for \in {"mutate", "SetConfValue"} => r.input \in Inputs
  /\ r.at = "assign" => r.object # NoConfig
  /\ r.at = "panic" => failures > 0
  /\ r.at = "save" => r.next \in 1..(Fields + 1)
  /\ failures = 0 => ~r.failed /\ (r.at \in {"set", "save", "assignBack"} => r.object # NoConfig)

StartsAlone == \A c, d \in Caller : running[c].for = "start" /\ c # d => running[d] = Resting

Agrees(a) == \A f \in Field : heap[a][f] = document[f] \/ f \in unsaved

(* What a call that is alone finds and leaves. *)
Quiet(r) ==
  /\ r.at \in {"rest", "get", "load", "assign", "return", "parse", "wrapper"} =>
       (reply = "ok" => Fields \notin unsaved)
  /\ r.at \in {"rest", "get", "load", "return", "parse", "wrapper"} =>
       (attribute # NoConfig => Agrees(attribute))
  /\ r.at = "assign" => heap[r.object] = document
  /\ r.at = "parse" => r.object = attribute
  /\ r.at = "save" =>
       /\ attribute = r.object /\ (r.object = NoConfig => r.next = 1)
       /\ r.object # NoConfig =>
            \A f \in Field : f < r.next => heap[r.object][f] = document[f] \/ f \in unsaved
       /\ r.next > 1 /\ ~r.failed => r.next - 1 \notin unsaved
  /\ r.at = "assignBack" =>
       /\ attribute = r.object /\ (attribute # NoConfig => Agrees(attribute))
       /\ ~r.failed => Fields \notin unsaved

ConfigInv ==
  /\ ConfigTypeOK /\ StartsAlone
  /\ provider = "registered" /\ failures = 0 => attribute # NoConfig
  /\ \A c \in Caller : CallFits(running[c])
  /\ ~overlapped =>
       /\ \A c, d \in Caller : c # d => running[c] = Resting \/ running[d] = Resting
       /\ AtRest => Quiet(Resting)
       /\ \A c \in Caller : running[c] # Resting => Quiet(running[c])

-----------------------------------------------------------------------------
LEMMA RestingIs == /\ Resting \in ConfigCall /\ Resting.at = "rest" /\ Resting.for = ""
                   /\ Resting.object = NoConfig /\ ~Resting.failed
BY DEF Resting, ConfigCall, NoConfig

(* One call takes a step from `at' of running[c] to r.                     *)
LEMMA ConfigStepInv ==
  ASSUME ConfigInv, NEW c \in Caller, running[c] # Resting, NEW r \in ConfigCall,
         running' = [running EXCEPT ![c] = r], overlapped' = overlapped,
         document' \in ConfigObject, heap' \in Seq(ConfigObject), attribute' \in 0..Len(heap'),
         failures' \in Nat, failures <= failures', Len(heap) <= Len(heap'), unsaved' \subseteq Field,
         provider' \in {"unset", "registered", "absent"},
         provider' = provider \/ (running[c].for = "start" /\ r = Resting),
         provider' = "registered" /\ failures' = 0 => attribute' # NoConfig,
         r.for = "start" => running[c].for = "start",
         CallFits(r)', ~overlapped => Quiet(r)'
  PROVE  ConfigInv'
<1>1. running \in [Caller -> ConfigCall] /\ heap \in Seq(ConfigObject) /\ failures \in Nat /\ Len(heap) \in Nat
      /\ Len(heap') \in Nat /\ overlapped \in BOOLEAN
  BY DEF ConfigInv, ConfigTypeOK
<1>2. running'[c] = r /\ \A d \in Caller \ {c} : running'[d] = running[d]
  BY <1>1
<1>3. ConfigTypeOK'
  <2>1. running' \in [Caller -> ConfigCall]
    BY <1>1
  <2>2. ConfigCall' = ConfigCall /\ ConfigObject' = ConfigObject /\ Field' = Field
    BY DEF ConfigCall, ConfigObject, Stored, Inputs, Field
  <2> QED
    BY <1>1, <2>1, <2>2 DEF ConfigTypeOK
<1>4. StartsAlone'
  BY <1>2 DEF ConfigInv, StartsAlone
<1>5. ASSUME NEW d \in Caller PROVE CallFits(running[d])'
  <2>1. CASE d = c
    BY <1>2, <2>1
  <2>2. CASE d # c
    <3>1. PICK e : e = running[d]
      OBVIOUS
    <3>2. e \in ConfigCall /\ CallFits(e) /\ running'[d] = e
      BY <1>1, <1>2, <2>2, <3>1 DEF ConfigInv
    <3>3. provider' = provider \/ e = Resting
      BY <2>2, <3>1 DEF ConfigInv, StartsAlone
    <3>4. e.object \in Nat
      BY <3>2 DEF ConfigCall
    <3>5. e.object <= Len(heap') /\ (failures' = 0 => failures = 0) /\ (failures > 0 => failures' > 0)
      BY <1>1, <3>2, <3>4 DEF CallFits
    <3>6. e.for = "start" => provider' = provider
      BY <3>3, RestingIs
    <3>7. e.at \in {"wrapper", "again"} => provider' = provider
      BY <3>3, RestingIs
    <3>8. CallFits(e)'
      BY <3>2, <3>5, <3>6, <3>7 DEF CallFits
    <3> QED
      BY <3>2, <3>8
  <2> QED
    BY <2>1, <2>2
<1>6. ASSUME ~overlapped
      PROVE  /\ \A d, e \in Caller : d # e => running'[d] = Resting \/ running'[e] = Resting
             /\ AtRest' => Quiet(Resting)'
             /\ \A d \in Caller : running'[d] # Resting => Quiet(running[d])'
  <2>1. \A d \in Caller \ {c} : running'[d] = Resting
    BY <1>2, <1>6 DEF ConfigInv
  <2>2. AtRest' => r = Resting
    BY <1>2 DEF AtRest, Resting
  <2>3. Quiet(r)'
    BY <1>6
  <2>4. ASSUME NEW d \in Caller, running'[d] # Resting PROVE Quiet(running[d])'
    BY <1>2, <2>1, <2>3, <2>4
  <2> QED
    BY <2>1, <2>2, <2>3, <2>4
<1> QED
  BY <1>3, <1>4, <1>5, <1>6 DEF ConfigInv, Resting

LEMMA CallerIs ==
  ASSUME ConfigInv, NEW c \in Caller
  PROVE  /\ running[c] \in ConfigCall /\ running \in [Caller -> ConfigCall]
         /\ CallFits(running[c])
         /\ running[c].at # "rest" => running[c] # Resting
         /\ ~overlapped /\ running[c] # Resting => Quiet(running[c])
BY RestingIs DEF ConfigInv, ConfigTypeOK

LEMMA ConfigTypes ==
  ASSUME ConfigInv
  PROVE  /\ document \in ConfigObject /\ heap \in Seq(ConfigObject) /\ attribute \in 0..Len(heap)
         /\ Len(heap) \in Nat /\ provider \in {"unset", "registered", "absent"}
         /\ failures \in Nat /\ unsaved \subseteq Field /\ overlapped \in BOOLEAN
         /\ provider = "registered" /\ failures = 0 => attribute # NoConfig
BY DEF ConfigInv, ConfigTypeOK

(* It may change nothing but the answer. *)
LEMMA ConfigQuietInv ==
  ASSUME ConfigInv, NEW c \in Caller, running[c] # Resting, NEW r \in ConfigCall,
         running' = [running EXCEPT ![c] = r],
         UNCHANGED <<document, heap, attribute, provider, failures, unsaved, overlapped>>,
         r.for = "start" => running[c].for = "start",
         CallFits(r)', ~overlapped => Quiet(r)'
  PROVE  ConfigInv'
<1>1. /\ document' \in ConfigObject /\ heap' \in Seq(ConfigObject) /\ attribute' \in 0..Len(heap')
      /\ provider' \in {"unset", "registered", "absent"} /\ unsaved' \subseteq Field
      /\ provider' = "registered" /\ failures' = 0 => attribute' # NoConfig
  BY ConfigTypes
<1>2. failures' \in Nat /\ failures <= failures' /\ Len(heap) <= Len(heap')
  BY ConfigTypes
<1>3. provider' = provider /\ overlapped' = overlapped
  OBVIOUS
<1> QED
  BY <1>1, <1>2, <1>3, ConfigStepInv

LEMMA RestFits ==
  ASSUME heap' \in Seq(ConfigObject), NEW r, r = Resting
  PROVE  CallFits(r)'
<1>1. Len(heap') \in Nat
  OBVIOUS
<1>2. r.at = "rest" /\ r.for = "" /\ r.object = 0 /\ ~r.failed
  BY RestingIs DEF NoConfig
<1>0. 0 <= Len(heap')
  BY <1>1
<1>3. r.object <= Len(heap')
  BY <1>0, <1>2
<1> QED
  BY <1>2, <1>3 DEF CallFits

LEMMA GetCachedInv ==
  ASSUME ConfigInv, NEW c \in Caller, GetCached(c)
  PROVE  ConfigInv'
<1>1. PICK w : w = running[c]
  OBVIOUS
<1>2. w \in ConfigCall /\ CallFits(w) /\ w.at = "get" /\ w # Resting /\ (~overlapped => Quiet(w))
  BY <1>1, CallerIs DEF GetCached
<1>3. PICK p \in {"load", "return"} : p = IF attribute = NoConfig THEN "load" ELSE "return"
  OBVIOUS
<1>4. PICK r : r = [w EXCEPT !.at = p]
  OBVIOUS
<1>5. running' = [running EXCEPT ![c] = r]
  BY <1>1, <1>3, <1>4 DEF GetCached, Put
<1>6. r \in ConfigCall /\ r.at = p /\ r.object = w.object /\ r.for = w.for /\ r.input = w.input /\ r.failed = w.failed
  BY <1>2, <1>3, <1>4 DEF ConfigCall
<1>7. UNCHANGED <<document, heap, attribute, provider, failures, unsaved, overlapped, reply>>
  BY DEF GetCached
<1>8. CallFits(r)'
  BY <1>2, <1>3, <1>6, <1>7 DEF CallFits
<1>9. ~overlapped => Quiet(r)'
  BY <1>2, <1>3, <1>6, <1>7 DEF Quiet, Agrees
<1>10. r.for = "start" => w.for = "start"
  BY <1>6
<1> QED
  BY <1>1, <1>2, <1>5, <1>6, <1>7, <1>8, <1>9, <1>10, ConfigQuietInv

(* The call ends, and leaves its answer.                                   *)
LEMMA ConfigEnds ==
  ASSUME ConfigInv, NEW c \in Caller, running[c] # Resting, running' = Finish(c),
         UNCHANGED <<document, heap, attribute, failures, unsaved, overlapped>>,
         provider' = provider,
         ~overlapped => Quiet(Resting)'
  PROVE  ConfigInv'
<1>1. PICK r : r = Resting
  OBVIOUS
<1>2. r \in ConfigCall /\ r.for # "start" /\ running' = [running EXCEPT ![c] = r]
  BY <1>1, RestingIs DEF Finish
<1>3. heap' \in Seq(ConfigObject)
  BY ConfigTypes
<1>4. CallFits(r)'
  BY <1>1, <1>3, RestFits
<1>5. ~overlapped => Quiet(r)'
  BY <1>1 DEF Resting
<1> QED
  BY <1>2, <1>4, <1>5, ConfigQuietInv

(* At rest, without another call. *)
LEMMA QuietRest ==
  ASSUME ConfigInv, NEW c \in Caller, running[c] # Resting, ~overlapped,
         running[c].at \in {"get", "load", "return", "parse", "wrapper"}
  PROVE  (reply = "ok" => Fields \notin unsaved) /\ (attribute # NoConfig => Agrees(attribute))
BY CallerIs DEF Quiet

LEMMA QuietRestNext ==
  ASSUME reply' = "ok" => Fields \notin unsaved', attribute' # NoConfig => Agrees(attribute)'
  PROVE  Quiet(Resting)'
<1>1. PICK r : r = Resting
  OBVIOUS
<1>2. r.at = "rest"
  BY <1>1, RestingIs
<1>3. Quiet(r)'
  BY <1>2 DEF Quiet
<1> QED
  BY <1>1, <1>3 DEF Resting

LEMMA LoadConfigInv ==
  ASSUME ConfigInv, NEW c \in Caller, LoadConfig(c)
  PROVE  ConfigInv'
<1>1. PICK w : w = running[c]
  OBVIOUS
<1>2. w \in ConfigCall /\ CallFits(w) /\ w.at = "load" /\ w # Resting /\ (~overlapped => Quiet(w))
  BY <1>1, CallerIs DEF LoadConfig
<1>3. /\ document \in ConfigObject /\ heap \in Seq(ConfigObject) /\ attribute \in 0..Len(heap) /\ Len(heap) \in Nat
      /\ failures \in Nat /\ UNCHANGED <<document, attribute, operations, unsaved, overlapped>>
  BY ConfigTypes DEF LoadConfig
<1>4. CASE /\ heap' = Append(heap, document)
           /\ running' = [running EXCEPT ![c].at = "assign", ![c].object = Len(heap) + 1]
           /\ UNCHANGED <<provider, failures, reply>>
  <2>1. PICK n : n = Len(heap) + 1
    OBVIOUS
  <2>2. PICK r : r = [w EXCEPT !.at = "assign", !.object = n]
    OBVIOUS
  <2>3. running' = [running EXCEPT ![c] = r]
    BY <1>1, <1>4, <2>1, <2>2
  <2>4. r \in ConfigCall /\ r.at = "assign" /\ r.object = n /\ r.for = w.for /\ r.input = w.input /\ r.failed = w.failed
    <3>1. n \in Nat
      BY <1>3, <2>1
    <3> QED
      BY <1>2, <2>2, <3>1 DEF ConfigCall
  <2>5. heap' \in Seq(ConfigObject) /\ Len(heap') = n /\ heap'[n] = document /\ Len(heap) <= Len(heap') /\ n # NoConfig
    BY <1>3, <1>4, <2>1 DEF NoConfig
  <2>6. CallFits(r)'
    BY <1>2, <1>4, <2>1, <2>4, <2>5, <1>3 DEF CallFits
  <2>7. ~overlapped => Quiet(r)'
    BY <1>2, <1>3, <1>4, <2>4, <2>5 DEF Quiet
  <2>8. attribute' \in 0..Len(heap')
    BY <1>3, <2>1, <2>5
  <2>9. /\ failures' \in Nat /\ failures <= failures' /\ provider' = provider
        /\ provider' \in {"unset", "registered", "absent"} /\ unsaved' \subseteq Field /\ document' \in ConfigObject
        /\ provider' = "registered" /\ failures' = 0 => attribute' # NoConfig
    BY <1>3, <1>4, ConfigTypes
  <2> QED
    BY <1>1, <1>2, <1>3, <2>3, <2>4, <2>5, <2>6, <2>7, <2>8, <2>9, ConfigStepInv
<1>5. CASE /\ FailCall /\ running' = Finish(c)
           /\ provider' = IF running[c].for = "start" THEN "absent" ELSE provider
           /\ reply' = IF running[c].for = "mutate" THEN "error" ELSE reply
           /\ UNCHANGED heap
  <2>1. PICK r : r = Resting
    OBVIOUS
  <2>2. r \in ConfigCall /\ r.for # "start" /\ running' = [running EXCEPT ![c] = r]
    BY <1>5, <2>1, RestingIs DEF Finish
  <2>3. CallFits(r)'
    BY <1>3, <1>5, <2>1, RestFits
  <2>4. ASSUME ~overlapped PROVE Quiet(r)'
    <3>1. (reply' = "ok" => Fields \notin unsaved) /\ (attribute # NoConfig => Agrees(attribute))
      BY <1>1, <1>2, <1>5, <2>4, QuietRest
    <3>2. reply' = "ok" => Fields \notin unsaved'
      BY <1>3, <3>1
    <3>3. attribute' # NoConfig => Agrees(attribute)'
      BY <1>3, <1>5, <3>1 DEF Agrees
    <3>4. Quiet(Resting)'
      BY <3>2, <3>3, QuietRestNext
    <3> QED
      BY <2>1, <3>4 DEF Resting
  <2>5. failures' \in Nat /\ failures <= failures' /\ failures' # 0
    BY <1>3, <1>5 DEF FailCall
  <2>6. /\ provider' \in {"unset", "registered", "absent"} /\ unsaved' \subseteq Field /\ document' \in ConfigObject
        /\ heap' \in Seq(ConfigObject) /\ attribute' \in 0..Len(heap') /\ Len(heap) <= Len(heap')
    BY <1>3, <1>5, ConfigTypes
  <2>7. provider' = provider \/ (running[c].for = "start" /\ r = Resting)
    BY <1>5, <2>1
  <2> QED
    BY <1>1, <1>2, <1>3, <2>2, <2>3, <2>4, <2>5, <2>6, <2>7, ConfigStepInv
<1> QED
  BY <1>4, <1>5 DEF LoadConfig

LEMMA AssignLoadedInv ==
  ASSUME ConfigInv, NEW c \in Caller, AssignLoaded(c)
  PROVE  ConfigInv'
<1>1. PICK w : w = running[c]
  OBVIOUS
<1>2. w \in ConfigCall /\ CallFits(w) /\ w.at = "assign" /\ w # Resting /\ (~overlapped => Quiet(w))
  BY <1>1, CallerIs DEF AssignLoaded
<1>3. PICK r : r = [w EXCEPT !.at = "return"]
  OBVIOUS
<1>4. /\ attribute' = w.object /\ unsaved' = {} /\ running' = [running EXCEPT ![c] = r]
      /\ UNCHANGED <<document, heap, provider, failures, overlapped, reply>>
  BY <1>1, <1>3 DEF AssignLoaded, Put
<1>5. r \in ConfigCall /\ r.at = "return" /\ r.object = w.object /\ r.for = w.for /\ r.input = w.input /\ r.failed = w.failed
  BY <1>2, <1>3 DEF ConfigCall
<1>6. CallFits(r)'
  BY <1>2, <1>4, <1>5 DEF CallFits
<1>7. ~overlapped => Quiet(r)'
  BY <1>2, <1>4, <1>5 DEF Quiet, Agrees
<1>8. w.object \in Nat /\ w.object <= Len(heap) /\ w.object # NoConfig
  BY <1>2 DEF ConfigCall, CallFits
<1>9. /\ document' \in ConfigObject /\ heap' \in Seq(ConfigObject) /\ attribute' \in 0..Len(heap')
      /\ provider' \in {"unset", "registered", "absent"} /\ unsaved' \subseteq Field
      /\ provider' = "registered" /\ failures' = 0 => attribute' # NoConfig
  BY <1>4, <1>8, ConfigTypes
<1>10. failures' \in Nat /\ failures <= failures' /\ Len(heap) <= Len(heap') /\ provider' = provider
  BY <1>4, ConfigTypes
<1> QED
  BY <1>1, <1>2, <1>4, <1>5, <1>6, <1>7, <1>9, <1>10, ConfigStepInv

LEMMA GetReturnsInv ==
  ASSUME ConfigInv, NEW c \in Caller, GetReturns(c)
  PROVE  ConfigInv'
<1>1. PICK w : w = running[c]
  OBVIOUS
<1>2. w \in ConfigCall /\ CallFits(w) /\ w.at = "return" /\ w # Resting /\ (~overlapped => Quiet(w))
  BY <1>1, CallerIs DEF GetReturns
<1>3. /\ UNCHANGED <<document, heap, attribute, operations, failures, unsaved, overlapped, reply>>
      /\ provider' = IF w.for # "start" THEN provider
                     ELSE IF attribute = NoConfig THEN "absent" ELSE "registered"
  BY <1>1 DEF GetReturns
<1>4. CASE w.for = "mutate"
  <2>1. PICK r : r = [w EXCEPT !.at = "parse", !.object = attribute]
    OBVIOUS
  <2>2. running' = [running EXCEPT ![c] = r] /\ provider' = provider
    BY <1>1, <1>3, <1>4, <2>1 DEF GetReturns
  <2>3. attribute \in Nat /\ attribute <= Len(heap)
    BY ConfigTypes
  <2>4. r \in ConfigCall /\ r.at = "parse" /\ r.object = attribute /\ r.for = w.for /\ r.input = w.input /\ r.failed = w.failed
    BY <1>2, <2>1, <2>3 DEF ConfigCall
  <2>5. CallFits(r)'
    BY <1>2, <1>3, <1>4, <2>2, <2>3, <2>4 DEF CallFits
  <2>6. ~overlapped => Quiet(r)'
    BY <1>2, <1>3, <2>4 DEF Quiet, Agrees
  <2> QED
    BY <1>1, <1>2, <1>3, <1>4, <2>2, <2>4, <2>5, <2>6, ConfigQuietInv
<1>5. CASE w.for # "mutate"
  <2>1. PICK r : r = Resting
    OBVIOUS
  <2>2. r \in ConfigCall /\ r.for # "start" /\ running' = [running EXCEPT ![c] = r]
    BY <1>1, <1>5, <2>1, RestingIs DEF Finish, GetReturns
  <2>3. heap' \in Seq(ConfigObject)
    BY <1>3, ConfigTypes
  <2>4. CallFits(r)'
    BY <2>1, <2>3, RestFits
  <2>5. ASSUME ~overlapped PROVE Quiet(r)'
    <3>1. (reply = "ok" => Fields \notin unsaved) /\ (attribute # NoConfig => Agrees(attribute))
      BY <1>1, <1>2, <2>5, QuietRest
    <3>2. reply' = "ok" => Fields \notin unsaved'
      BY <1>3, <3>1
    <3>3. attribute' # NoConfig => Agrees(attribute)'
      BY <1>3, <3>1 DEF Agrees
    <3>4. Quiet(Resting)'
      BY <3>2, <3>3, QuietRestNext
    <3> QED
      BY <2>1, <3>4 DEF Resting
  <2>6. failures' \in Nat /\ failures <= failures' /\ Len(heap) <= Len(heap')
    BY <1>3, ConfigTypes
  <2>7. /\ provider' \in {"unset", "registered", "absent"} /\ unsaved' \subseteq Field /\ document' \in ConfigObject
        /\ attribute' \in 0..Len(heap')
        /\ provider' = "registered" /\ failures' = 0 => attribute' # NoConfig
    BY <1>3, ConfigTypes
  <2>8. provider' = provider \/ (running[c].for = "start" /\ r = Resting)
    BY <1>1, <1>3, <2>1
  <2> QED
    BY <1>1, <1>2, <1>3, <2>2, <2>3, <2>4, <2>5, <2>6, <2>7, <2>8, ConfigStepInv
<1> QED
  BY <1>4, <1>5

(* What the input parser leaves of an object.                              *)
Parsed(input, object) == [f \in Field |-> IF Before(input, f) # {} THEN input[f] ELSE object[f]]
Assigned(input) == {f \in DOMAIN input : Before(input, f) # {}}

LEMMA ParsedIs ==
  ASSUME NEW input \in Inputs, NEW object \in ConfigObject
  PROVE  /\ Parsed(input, object) \in ConfigObject /\ Assigned(input) \subseteq Field
         /\ \A f \in Field \ Assigned(input) : Parsed(input, object)[f] = object[f]
<1>1. PICK S \in SUBSET Field : input \in [S -> FieldValue \cup {"wrong"}]
  BY DEF Inputs
<1>2. ASSUME NEW f \in Field, Before(input, f) # {} PROVE f \in S /\ input[f] \in FieldValue
  <2>1. f \in S /\ \A w \in Wrong(input) : f < w
    BY <1>1, <1>2 DEF Before
  <2>2. f \in Wrong(input) => FALSE
    BY <2>1 DEF Field
  <2> QED
    BY <1>1, <2>1, <2>2 DEF Wrong
<1>3. Parsed(input, object) \in ConfigObject
  BY <1>2 DEF ConfigObject, Stored, Parsed
<1>4. Assigned(input) \subseteq Field
  BY <1>1 DEF Assigned
<1>5. \A f \in Field \ Assigned(input) : Parsed(input, object)[f] = object[f]
  BY <1>1, <1>2 DEF Parsed, Assigned
<1> QED
  BY <1>3, <1>4, <1>5

LEMMA ParseInputInv ==
  ASSUME ConfigInv, NEW c \in Caller, ParseInput(c)
  PROVE  ConfigInv'
<1>1. PICK w : w = running[c]
  OBVIOUS
<1>2. /\ w \in ConfigCall /\ CallFits(w) /\ w.at = "parse" /\ w # Resting /\ (~overlapped => Quiet(w))
      /\ w.input \in Inputs /\ w.object \in Nat /\ w.object <= Len(heap) /\ w.for = "mutate"
  <2>1. w \in ConfigCall /\ CallFits(w) /\ w.at = "parse" /\ w # Resting /\ (~overlapped => Quiet(w))
    BY <1>1, CallerIs DEF ParseInput
  <2> QED
    BY <2>1 DEF CallFits, ConfigCall
<1>3. PICK object : object = IF w.object = NoConfig THEN [f \in Field |-> Default] ELSE heap[w.object]
  OBVIOUS
<1>4. PICK parsed : parsed = Parsed(w.input, object)
  OBVIOUS
<1>5. PICK assigned : assigned = Assigned(w.input)
  OBVIOUS
<1>6. PICK address : address = IF w.object = NoConfig THEN Len(heap) + 1 ELSE w.object
  OBVIOUS
<1>7. /\ heap' = IF w.object = NoConfig THEN Append(heap, parsed) ELSE [heap EXCEPT ![address] = parsed]
      /\ unsaved' = IF w.object = NoConfig THEN unsaved ELSE unsaved \cup assigned
      /\ \/ running' = Finish(c) /\ reply' = "error"
         \/ running' = [running EXCEPT ![c].at = "set", ![c].object = address]
      /\ UNCHANGED <<document, attribute, provider, failures, overlapped>>
  BY <1>1, <1>3, <1>4, <1>5, <1>6 DEF ParseInput, Parsed, Assigned
<1>8. /\ document \in ConfigObject /\ heap \in Seq(ConfigObject) /\ attribute \in 0..Len(heap) /\ Len(heap) \in Nat
      /\ failures \in Nat /\ unsaved \subseteq Field
  BY ConfigTypes
<1>9. object \in ConfigObject
  <2>1. CASE w.object = NoConfig
    BY <1>3, <2>1 DEF ConfigObject, Stored
  <2>2. CASE w.object # NoConfig
    <3>1. w.object \in 1..Len(heap)
      BY <1>2, <1>8, <2>2 DEF NoConfig
    <3> QED
      BY <1>3, <1>8, <2>2, <3>1
  <2> QED
    BY <2>1, <2>2
<1>10. /\ parsed \in ConfigObject /\ assigned \subseteq Field
       /\ \A f \in Field \ assigned : parsed[f] = object[f]
  BY <1>2, <1>4, <1>5, <1>9, ParsedIs
<1>11. /\ heap' \in Seq(ConfigObject) /\ Len(heap') \in Nat /\ Len(heap) <= Len(heap') /\ address \in 1..Len(heap')
       /\ heap'[address] = parsed /\ \A a \in 1..Len(heap) : a # address => heap'[a] = heap[a]
  <2>1. CASE w.object = NoConfig
    BY <1>6, <1>7, <1>8, <1>10, <2>1
  <2>2. CASE w.object # NoConfig
    <3>1. address \in 1..Len(heap)
      BY <1>2, <1>6, <1>8, <2>2 DEF NoConfig
    <3>2. heap' = [heap EXCEPT ![address] = parsed]
      BY <1>7, <2>2
    <3> QED
      BY <1>8, <1>10, <3>1, <3>2
  <2> QED
    BY <2>1, <2>2
<1>12. /\ document' \in ConfigObject /\ attribute' \in 0..Len(heap')
       /\ provider' \in {"unset", "registered", "absent"} /\ unsaved' \subseteq Field
       /\ provider' = "registered" /\ failures' = 0 => attribute' # NoConfig
       /\ failures' \in Nat /\ failures <= failures' /\ provider' = provider
  <2>1. attribute' \in 0..Len(heap')
    BY <1>7, <1>8, <1>11
  <2>2. unsaved' \subseteq Field
    BY <1>7, <1>8, <1>10
  <2> QED
    BY <1>7, <1>8, <2>1, <2>2, ConfigTypes
<1>13. CASE running' = Finish(c) /\ reply' = "error"
  <2>1. PICK r : r = Resting
    OBVIOUS
  <2>2. r \in ConfigCall /\ r.for # "start" /\ running' = [running EXCEPT ![c] = r]
    BY <1>13, <2>1, RestingIs DEF Finish
  <2>3. CallFits(r)'
    BY <1>11, <2>1, RestFits
  <2>4. ASSUME ~overlapped PROVE Quiet(r)'
    <3>1. (attribute # NoConfig => Agrees(attribute)) /\ w.object = attribute
      BY <1>2, <2>4 DEF Quiet
    <3>2. attribute' # NoConfig => Agrees(attribute)'
      <4>1. SUFFICES ASSUME attribute # NoConfig, NEW f \in Field
                     PROVE  heap'[attribute][f] = document[f] \/ f \in unsaved'
        BY <1>7 DEF Agrees, Field
      <4>2. address = attribute /\ object = heap[attribute] /\ unsaved' = unsaved \cup assigned
        BY <1>3, <1>6, <1>7, <3>1, <4>1
      <4>3. heap'[attribute] = parsed /\ (heap[attribute][f] = document[f] \/ f \in unsaved)
        BY <1>11, <3>1, <4>1, <4>2 DEF Agrees
      <4> QED
        BY <1>10, <4>2, <4>3
    <3>3. reply' = "ok" => Fields \notin unsaved'
      BY <1>13
    <3>4. Quiet(Resting)'
      BY <3>2, <3>3, QuietRestNext
    <3> QED
      BY <2>1, <3>4 DEF Resting
  <2> QED
    BY <1>1, <1>2, <1>7, <1>11, <1>12, <2>2, <2>3, <2>4, ConfigStepInv
<1>14. CASE running' = [running EXCEPT ![c].at = "set", ![c].object = address]
  <2>1. PICK r : r = [w EXCEPT !.at = "set", !.object = address]
    OBVIOUS
  <2>2. running' = [running EXCEPT ![c] = r]
    BY <1>1, <1>14, <2>1
  <2>3. address \in Nat /\ address # NoConfig /\ address <= Len(heap')
    BY <1>11 DEF NoConfig
  <2>4. r \in ConfigCall /\ r.at = "set" /\ r.object = address /\ r.for = w.for /\ r.input = w.input /\ r.failed = w.failed
    BY <1>2, <2>1, <2>3 DEF ConfigCall
  <2>5. CallFits(r)'
    BY <1>2, <1>7, <2>3, <2>4 DEF CallFits
  <2>6. Quiet(r)'
    BY <2>4 DEF Quiet
  <2>7. r.for # "start"
    BY <1>2, <2>4
  <2> QED
    BY <1>1, <1>2, <1>7, <1>11, <1>12, <2>2, <2>4, <2>5, <2>6, <2>7, ConfigStepInv
<1> QED
  BY <1>7, <1>13, <1>14

LEMMA SetConfigInv ==
  ASSUME ConfigInv, NEW c \in Caller, SetConfig(c)
  PROVE  ConfigInv'
<1>1. PICK w : w = running[c]
  OBVIOUS
<1>2. w \in ConfigCall /\ CallFits(w) /\ w.at = "set" /\ w # Resting
  BY <1>1, CallerIs DEF SetConfig
<1>3. PICK r : r = [w EXCEPT !.at = "save", !.next = 1, !.failed = FALSE]
  OBVIOUS
<1>4. /\ attribute' = w.object /\ running' = [running EXCEPT ![c] = r]
      /\ UNCHANGED <<document, heap, provider, failures, unsaved, overlapped, reply>>
  BY <1>1, <1>3 DEF SetConfig
<1>5. /\ r \in ConfigCall /\ r.at = "save" /\ r.object = w.object /\ r.for = w.for /\ r.input = w.input
      /\ ~r.failed /\ r.next = 1
  BY <1>2, <1>3 DEF ConfigCall
<1>6. 1 \in 1..(Fields + 1)
  BY ConfigEntityAssumption
<1>7. CallFits(r)'
  BY <1>2, <1>4, <1>5, <1>6 DEF CallFits
<1>8. Quiet(r)'
  <2>1. \A f \in Field : ~(f < 1)
    BY DEF Field
  <2> QED
    BY <1>4, <1>5, <2>1 DEF Quiet, Field
<1>9. w.object \in Nat /\ w.object <= Len(heap) /\ (failures = 0 => w.object # NoConfig) /\ w.for # "start"
  BY <1>2 DEF ConfigCall, CallFits
<1>10. /\ document' \in ConfigObject /\ heap' \in Seq(ConfigObject) /\ attribute' \in 0..Len(heap')
       /\ provider' \in {"unset", "registered", "absent"} /\ unsaved' \subseteq Field
       /\ provider' = "registered" /\ failures' = 0 => attribute' # NoConfig
  BY <1>4, <1>9, ConfigTypes
<1>11. failures' \in Nat /\ failures <= failures' /\ Len(heap) <= Len(heap') /\ provider' = provider
  BY <1>4, ConfigTypes
<1> QED
  BY <1>1, <1>2, <1>4, <1>5, <1>7, <1>8, <1>9, <1>10, <1>11, ConfigStepInv

LEMMA SaveFieldInv ==
  ASSUME ConfigInv, NEW c \in Caller, SaveField(c)
  PROVE  ConfigInv'
<1>1. PICK w : w = running[c]
  OBVIOUS
<1>2. /\ w \in ConfigCall /\ CallFits(w) /\ w.at = "save" /\ w # Resting /\ (~overlapped => Quiet(w))
      /\ w.object # NoConfig /\ w.next <= Fields
  BY <1>1, CallerIs DEF SaveField
<1>3. PICK n : n = w.next
  OBVIOUS
<1>4. n \in Field /\ n \in Nat /\ n + 1 \in 1..(Fields + 1) /\ n + 1 \in Nat
  <2>1. w.next \in 1..(Fields + 1) /\ Fields \in Nat
    BY <1>2, ConfigEntityAssumption DEF CallFits
  <2> QED
    BY <1>2, <1>3, <2>1 DEF Field
<1>5. w.object \in 1..Len(heap) /\ document \in ConfigObject /\ heap \in Seq(ConfigObject) /\ unsaved \subseteq Field
      /\ failures \in Nat
  <2>1. w.object \in Nat /\ w.object <= Len(heap)
    BY <1>2 DEF ConfigCall, CallFits
  <2> QED
    BY <1>2, <2>1, ConfigTypes DEF NoConfig
<1>6. PICK v : v = heap[w.object][n]
  OBVIOUS
<1>7. v \in Stored
  <2>1. heap[w.object] \in ConfigObject
    BY <1>5
  <2> QED
    BY <1>4, <1>6, <2>1 DEF ConfigObject
<1>8. PICK stored : stored = [document EXCEPT ![n] = v]
  OBVIOUS
<1>9. stored \in ConfigObject /\ stored[n] = v /\ \A f \in Field \ {n} : stored[f] = document[f]
  BY <1>4, <1>5, <1>7, <1>8 DEF ConfigObject
<1>10. PICK failed \in BOOLEAN :
         /\ running' = [running EXCEPT ![c] = Replace(w, failed)]
         /\ document' \in {document, stored} /\ (~failed => document' = stored)
         /\ unsaved' = IF failed THEN unsaved \cup {n} ELSE unsaved \ {n}
         /\ failures' = IF failed THEN failures + 1 ELSE failures
         /\ UNCHANGED <<heap, attribute, provider, overlapped, reply>>
  <2>1. stored = [document EXCEPT ![w.next] = heap[w.object][w.next]]
    BY <1>3, <1>6, <1>8
  <2>2. CASE /\ document' = stored /\ unsaved' = unsaved \ {n}
             /\ running' = [running EXCEPT ![c] = Replace(w, FALSE)]
             /\ UNCHANGED failures
    BY <2>2 DEF SaveField
  <2>3. CASE /\ FailCall /\ document' \in {document, stored} /\ unsaved' = unsaved \cup {n}
             /\ running' = [running EXCEPT ![c] = Replace(w, TRUE)]
    BY <2>3 DEF SaveField, FailCall
  <2> QED
    BY <1>1, <1>3, <2>1, <2>2, <2>3 DEF SaveField
<1>11. PICK r : r = [w EXCEPT !.next = n + 1, !.failed = failed]
  OBVIOUS
<1>12. Replace(w, failed) = r
  BY <1>2, <1>3, <1>11 DEF Replace
<1>13. /\ r \in ConfigCall /\ r.at = "save" /\ r.object = w.object /\ r.for = w.for /\ r.input = w.input
       /\ r.failed = failed /\ r.next = n + 1
  BY <1>2, <1>4, <1>11 DEF ConfigCall
<1>14. failures' \in Nat /\ failures <= failures' /\ (failures' = 0 => failures = 0 /\ ~failed)
  BY <1>5, <1>10
<1>15. CallFits(r)'
  BY <1>2, <1>4, <1>10, <1>13, <1>14 DEF CallFits
<1>16. ASSUME ~overlapped PROVE Quiet(r)'
  <2>1. /\ attribute = w.object
        /\ \A f \in Field : f < n => heap[w.object][f] = document[f] \/ f \in unsaved
    BY <1>2, <1>3, <1>16 DEF Quiet
  <2>2. ASSUME NEW f \in Field, f < n + 1
        PROVE  heap[w.object][f] = document'[f] \/ f \in unsaved'
    <3>1. CASE f = n
      BY <1>6, <1>9, <1>10, <3>1
    <3>2. CASE f # n
      <4>1. f < n
        BY <1>4, <2>2, <3>2 DEF Field
      <4>2. document'[f] = document[f] /\ (f \in unsaved => f \in unsaved')
        BY <1>9, <1>10, <3>2
      <4> QED
        BY <2>1, <4>1, <4>2
    <3> QED
      BY <3>1, <3>2
  <2>3. ~failed => n \notin unsaved'
    BY <1>10
  <2>4. (n + 1) - 1 = n
    BY <1>4
  <2>5. Field' = Field
    BY DEF Field
  <2> QED
    BY <1>2, <1>10, <1>13, <2>1, <2>2, <2>3, <2>4, <2>5 DEF Quiet
<1>17. /\ document' \in ConfigObject /\ heap' \in Seq(ConfigObject) /\ attribute' \in 0..Len(heap')
       /\ provider' \in {"unset", "registered", "absent"} /\ unsaved' \subseteq Field
       /\ provider' = "registered" /\ failures' = 0 => attribute' # NoConfig
  <2>1. unsaved' \subseteq Field /\ document' \in ConfigObject
    BY <1>4, <1>5, <1>9, <1>10
  <2> QED
    BY <1>10, <1>14, <2>1, ConfigTypes
<1>18. Len(heap) <= Len(heap') /\ provider' = provider
  BY <1>10, ConfigTypes
<1> QED
  BY <1>1, <1>2, <1>10, <1>12, <1>13, <1>14, <1>15, <1>16, <1>17, <1>18, ConfigStepInv

LEMMA SetReturnsInv ==
  ASSUME ConfigInv, NEW c \in Caller, SetReturns(c)
  PROVE  ConfigInv'
<1>1. PICK w : w = running[c]
  OBVIOUS
<1>2. /\ w \in ConfigCall /\ CallFits(w) /\ w.at = "save" /\ w # Resting /\ (~overlapped => Quiet(w))
      /\ w.next > Fields
  BY <1>1, CallerIs DEF SetReturns
<1>3. UNCHANGED <<document, heap, attribute, provider, operations, failures, unsaved, overlapped>>
  BY DEF SetReturns
<1>4. w.next = Fields + 1 /\ Fields \in Nat \ {0}
  BY <1>2, ConfigEntityAssumption DEF CallFits
<1>5. ASSUME ~overlapped
      PROVE  /\ attribute = w.object /\ (attribute # NoConfig => Agrees(attribute))
             /\ ~w.failed => Fields \notin unsaved
  <2>1. \A f \in Field : f < w.next
    BY <1>4 DEF Field
  <2>2. w.next > 1 /\ w.next - 1 = Fields
    BY <1>4
  <2> QED
    BY <1>2, <1>5, <2>1, <2>2 DEF Quiet, Agrees
<1>6. CASE running' = Finish(c) /\ reply' = IF w.failed THEN "error" ELSE "ok"
  <2>1. ASSUME ~overlapped PROVE Quiet(Resting)'
    <3>1. reply' = "ok" => Fields \notin unsaved'
      BY <1>3, <1>5, <1>6, <2>1
    <3>2. attribute' # NoConfig => Agrees(attribute)'
      BY <1>3, <1>5, <2>1 DEF Agrees
    <3> QED
      BY <3>1, <3>2, QuietRestNext
  <2> QED
    BY <1>1, <1>2, <1>3, <1>6, <2>1, ConfigEnds
<1>7. CASE running' = Put(c, "assignBack") /\ UNCHANGED reply
  <2>1. PICK r : r = [w EXCEPT !.at = "assignBack"]
    OBVIOUS
  <2>2. running' = [running EXCEPT ![c] = r]
    BY <1>1, <1>7, <2>1 DEF Put
  <2>3. /\ r \in ConfigCall /\ r.at = "assignBack" /\ r.object = w.object /\ r.for = w.for /\ r.input = w.input
        /\ r.failed = w.failed
    BY <1>2, <2>1 DEF ConfigCall
  <2>4. CallFits(r)'
    BY <1>2, <1>3, <2>3 DEF CallFits
  <2>5. ~overlapped => Quiet(r)'
    BY <1>3, <1>5, <2>3 DEF Quiet, Agrees
  <2> QED
    BY <1>1, <1>2, <1>3, <2>2, <2>3, <2>4, <2>5, ConfigQuietInv
<1> QED
  BY <1>1, <1>6, <1>7 DEF SetReturns

LEMMA AssignBackInv ==
  ASSUME ConfigInv, NEW c \in Caller, AssignBack(c)
  PROVE  ConfigInv'
<1>1. PICK w : w = running[c]
  OBVIOUS
<1>2. /\ w \in ConfigCall /\ CallFits(w) /\ w.at = "assignBack" /\ w # Resting /\ (~overlapped => Quiet(w))
      /\ w.object \in Nat /\ w.object <= Len(heap) /\ (failures = 0 => ~w.failed /\ w.object # NoConfig)
  <2>1. w \in ConfigCall /\ CallFits(w) /\ w.at = "assignBack" /\ w # Resting /\ (~overlapped => Quiet(w))
    BY <1>1, CallerIs DEF AssignBack
  <2> QED
    BY <2>1 DEF CallFits, ConfigCall
<1>3. /\ attribute' = IF w.failed THEN NoConfig ELSE w.object
      /\ reply' = IF w.failed THEN "error" ELSE "ok"
      /\ UNCHANGED <<document, heap, provider, failures, unsaved, overlapped>>
  BY <1>1 DEF AssignBack
<1>4. PICK r : r = Resting
  OBVIOUS
<1>5. r \in ConfigCall /\ r.for # "start" /\ running' = [running EXCEPT ![c] = r]
  BY <1>4, RestingIs DEF Finish, AssignBack
<1>6. heap' \in Seq(ConfigObject)
  BY <1>3, ConfigTypes
<1>7. CallFits(r)'
  BY <1>4, <1>6, RestFits
<1>8. ASSUME ~overlapped PROVE Quiet(r)'
  <2>1. /\ attribute = w.object /\ (attribute # NoConfig => Agrees(attribute))
        /\ ~w.failed => Fields \notin unsaved
    BY <1>2, <1>8 DEF Quiet
  <2>2. reply' = "ok" => Fields \notin unsaved'
    BY <1>3, <2>1
  <2>3. attribute' # NoConfig => Agrees(attribute)'
    BY <1>3, <2>1 DEF Agrees
  <2>4. Quiet(Resting)'
    BY <2>2, <2>3, QuietRestNext
  <2> QED
    BY <1>4, <2>4 DEF Resting
<1>9. attribute' \in 0..Len(heap')
  <2>1. Len(heap) \in Nat
    BY ConfigTypes
  <2> QED
    BY <1>2, <1>3, <2>1 DEF NoConfig
<1>10. /\ document' \in ConfigObject /\ provider' \in {"unset", "registered", "absent"} /\ unsaved' \subseteq Field
       /\ provider' = "registered" /\ failures' = 0 => attribute' # NoConfig
  BY <1>2, <1>3, ConfigTypes
<1>11. failures' \in Nat /\ failures <= failures' /\ Len(heap) <= Len(heap') /\ provider' = provider
  BY <1>3, ConfigTypes
<1> QED
  BY <1>1, <1>2, <1>3, <1>5, <1>6, <1>7, <1>8, <1>9, <1>10, <1>11, ConfigStepInv

(* A nil pointer is met, after a failure only.                             *)
LEMMA DereferenceInv ==
  ASSUME ConfigInv, NEW c \in Caller, running[c].at # "rest", running[c].for # "start", failures # 0, Dereference(c)
  PROVE  ConfigInv'
<1>1. PICK w : w = running[c]
  OBVIOUS
<1>2. w \in ConfigCall /\ CallFits(w) /\ w # Resting /\ w.for # "start"
  BY <1>1, CallerIs
<1>3. PICK r : r = [w EXCEPT !.at = "panic"]
  OBVIOUS
<1>4. /\ running' = [running EXCEPT ![c] = r]
      /\ UNCHANGED <<document, heap, attribute, provider, failures, unsaved, overlapped, reply>>
  BY <1>1, <1>3 DEF Dereference
<1>5. r \in ConfigCall /\ r.at = "panic" /\ r.object = w.object /\ r.for = w.for /\ r.input = w.input /\ r.failed = w.failed
  BY <1>2, <1>3 DEF ConfigCall
<1>6. failures > 0
  BY ConfigTypes
<1>7. CallFits(r)'
  BY <1>2, <1>4, <1>5, <1>6 DEF CallFits
<1>8. Quiet(r)'
  BY <1>5 DEF Quiet
<1> QED
  BY <1>1, <1>2, <1>4, <1>5, <1>7, <1>8, ConfigQuietInv

LEMMA SaveNilInv ==
  ASSUME ConfigInv, NEW c \in Caller, SaveNil(c)
  PROVE  ConfigInv'
<1>1. CallFits(running[c]) /\ running[c].at = "save" /\ running[c].object = NoConfig /\ Dereference(c)
  BY CallerIs DEF SaveNil
<1> QED
  BY <1>1, DereferenceInv DEF CallFits

LEMMA WrapperGetInv ==
  ASSUME ConfigInv, NEW c \in Caller, WrapperGetConfigValue(c)
  PROVE  ConfigInv'
<1>1. /\ CallFits(running[c]) /\ running[c].at = "wrapper" /\ GetConfigValue(c) /\ running[c] # Resting
      /\ provider = "registered" /\ running[c].for = "ConfValue"
  BY CallerIs DEF WrapperGetConfigValue, CallFits
<1>2. CASE attribute = NoConfig
  <2>1. failures # 0
    BY <1>1, <1>2, ConfigTypes
  <2> QED
    BY <1>1, <1>2, <2>1, DereferenceInv DEF GetConfigValue
<1>3. CASE attribute # NoConfig
  <2>1. /\ running' = Finish(c)
        /\ UNCHANGED <<document, heap, attribute, provider, operations, failures, unsaved, overlapped, reply>>
    BY <1>1, <1>3 DEF GetConfigValue
  <2>2. ASSUME ~overlapped PROVE Quiet(Resting)'
    <3>1. (reply = "ok" => Fields \notin unsaved) /\ (attribute # NoConfig => Agrees(attribute))
      BY <1>1, <2>2, QuietRest
    <3>2. reply' = "ok" => Fields \notin unsaved'
      BY <2>1, <3>1
    <3>3. attribute' # NoConfig => Agrees(attribute)'
      BY <2>1, <3>1 DEF Agrees
    <3> QED
      BY <3>2, <3>3, QuietRestNext
  <2> QED
    BY <1>1, <2>1, <2>2, ConfigEnds
<1> QED
  BY <1>2, <1>3

LEMMA WrapperSetValueInv ==
  ASSUME ConfigInv, NEW c \in Caller, WrapperSetConfigValue(c)
  PROVE  ConfigInv'
<1>1. PICK w : w = running[c]
  OBVIOUS
<1>2. /\ w \in ConfigCall /\ CallFits(w) /\ w.at = "wrapper" /\ w # Resting
      /\ provider = "registered" /\ w.for = "SetConfValue" /\ w.input \in Inputs
  <2>1. w \in ConfigCall /\ CallFits(w) /\ w.at = "wrapper" /\ w # Resting /\ w.for = "SetConfValue"
    BY <1>1, CallerIs DEF WrapperSetConfigValue
  <2> QED
    BY <2>1 DEF CallFits
<1>3. PICK f \in DOMAIN w.input : SetConfigValue(c, f, w.input[f])
  BY <1>1 DEF WrapperSetConfigValue
<1>4. PICK v : v = w.input[f]
  OBVIOUS
<1>5. f \in Field /\ v \in FieldValue \cup {"wrong"}
  BY <1>2, <1>3, <1>4 DEF Inputs
<1>6. CASE attribute = NoConfig
  <2>1. failures # 0
    BY <1>2, <1>6, ConfigTypes
  <2> QED
    BY <1>1, <1>2, <1>3, <1>6, <2>1, DereferenceInv DEF SetConfigValue
<1>7. CASE attribute # NoConfig /\ v = "wrong"
  <2>1. /\ running' = Finish(c) /\ reply' = "error"
        /\ UNCHANGED <<document, heap, attribute, provider, operations, failures, unsaved, overlapped>>
    BY <1>3, <1>4, <1>7 DEF SetConfigValue
  <2>2. ASSUME ~overlapped PROVE Quiet(Resting)'
    <3>1. attribute # NoConfig => Agrees(attribute)
      BY <1>1, <1>2, <2>2, QuietRest
    <3>2. attribute' # NoConfig => Agrees(attribute)'
      BY <2>1, <3>1 DEF Agrees
    <3> QED
      BY <2>1, <3>2, QuietRestNext
  <2> QED
    BY <1>1, <1>2, <2>1, <2>2, ConfigEnds
<1>8. CASE attribute # NoConfig /\ v # "wrong"
  <2>1. PICK r : r = [w EXCEPT !.at = "again"]
    OBVIOUS
  <2>2. /\ heap' = [heap EXCEPT ![attribute][f] = v] /\ unsaved' = unsaved \cup {f}
        /\ running' = [running EXCEPT ![c] = r]
        /\ UNCHANGED <<document, attribute, provider, failures, overlapped, reply>>
    BY <1>1, <1>3, <1>4, <1>8, <2>1 DEF SetConfigValue, Put
  <2>3. r \in ConfigCall /\ r.at = "again" /\ r.object = w.object /\ r.for = w.for /\ r.input = w.input /\ r.failed = w.failed
    BY <1>2, <2>1 DEF ConfigCall
  <2>4. attribute \in 1..Len(heap) /\ heap \in Seq(ConfigObject) /\ Len(heap) \in Nat
    BY <1>8, ConfigTypes DEF NoConfig
  <2>5. heap[attribute] \in ConfigObject
    BY <2>4
  <2>6. PICK o : o = [heap[attribute] EXCEPT ![f] = v]
    OBVIOUS
  <2>7. o \in ConfigObject
    BY <1>5, <1>8, <2>5, <2>6 DEF ConfigObject, Stored
  <2>8. heap' = [heap EXCEPT ![attribute] = o]
    BY <2>2, <2>6
  <2>9. heap' \in Seq(ConfigObject) /\ Len(heap') = Len(heap)
    BY <2>4, <2>7, <2>8
  <2>10. CallFits(r)'
    BY <1>2, <2>2, <2>3, <2>9 DEF CallFits
  <2>11. Quiet(r)'
    BY <2>3 DEF Quiet
  <2>12. /\ document' \in ConfigObject /\ attribute' \in 0..Len(heap') /\ Len(heap) <= Len(heap')
         /\ provider' \in {"unset", "registered", "absent"} /\ unsaved' \subseteq Field /\ provider' = provider
         /\ provider' = "registered" /\ failures' = 0 => attribute' # NoConfig
         /\ failures' \in Nat /\ failures <= failures' /\ r.for # "start"
    BY <1>2, <1>5, <2>2, <2>3, <2>4, <2>9, ConfigTypes
  <2> QED
    BY <1>1, <1>2, <2>2, <2>3, <2>9, <2>10, <2>11, <2>12, ConfigStepInv
<1> QED
  BY <1>6, <1>7, <1>8

LEMMA WrapperSetInv ==
  ASSUME ConfigInv, NEW c \in Caller, WrapperSet(c)
  PROVE  ConfigInv'
<1>1. PICK w : w = running[c]
  OBVIOUS
<1>2. w \in ConfigCall /\ CallFits(w) /\ w.at = "again" /\ w # Resting
  BY <1>1, CallerIs DEF WrapperSet
<1>3. PICK r : r = [w EXCEPT !.at = "set", !.object = attribute]
  OBVIOUS
<1>4. /\ running' = [running EXCEPT ![c] = r]
      /\ UNCHANGED <<document, heap, attribute, provider, failures, unsaved, overlapped, reply>>
  BY <1>1, <1>3 DEF WrapperSet
<1>5. attribute \in Nat /\ attribute <= Len(heap) /\ (provider = "registered" /\ failures = 0 => attribute # NoConfig)
  BY ConfigTypes
<1>6. /\ r \in ConfigCall /\ r.at = "set" /\ r.object = attribute /\ r.for = w.for /\ r.input = w.input
      /\ r.failed = w.failed
  BY <1>2, <1>3, <1>5 DEF ConfigCall
<1>7. provider = "registered"
  BY <1>2 DEF CallFits
<1>8. CallFits(r)'
  BY <1>2, <1>4, <1>5, <1>6, <1>7 DEF CallFits
<1>9. Quiet(r)'
  BY <1>6 DEF Quiet
<1> QED
  BY <1>1, <1>2, <1>4, <1>6, <1>8, <1>9, ConfigQuietInv

LEMMA BeginInv ==
  ASSUME ConfigInv, NEW c \in Caller, NEW for \in {"start", "query", "mutate", "ConfValue", "SetConfValue"},
         NEW input \in Inputs \cup {<<>>}, for \in {"mutate", "SetConfValue"} => input \in Inputs,
         Begin(c, for, input)
  PROVE  ConfigInv'
<1>1. PICK p \in {"wrapper", "get"} : p = IF for \in {"ConfValue", "SetConfValue"} THEN "wrapper" ELSE "get"
  OBVIOUS
<1>2. PICK w : w = Resting
  OBVIOUS
<1>3. PICK r : r = [w EXCEPT !.for = for, !.input = input, !.at = p]
  OBVIOUS
<1>4. /\ w \in ConfigCall /\ w.object = NoConfig /\ ~w.failed
  BY <1>2, RestingIs
<1>5. /\ r \in ConfigCall /\ r.at = p /\ r.object = NoConfig /\ r.for = for /\ r.input = input /\ ~r.failed
  BY <1>1, <1>3, <1>4 DEF ConfigCall
<1>6. /\ running[c] = Resting /\ running' = [running EXCEPT ![c] = r]
      /\ provider = "unset" => for = "start" /\ \A d \in Caller : running[d] = Resting
      /\ provider # "unset" => for # "start"
      /\ for \in {"ConfValue", "SetConfValue"} => provider = "registered"
      /\ overlapped' = (overlapped \/ \E d \in Caller : running[d] # Resting)
      /\ UNCHANGED <<document, heap, attribute, provider, failures, unsaved, reply>>
  BY <1>1, <1>2, <1>3 DEF Begin
<1>7. running \in [Caller -> ConfigCall] /\ overlapped \in BOOLEAN /\ Len(heap) \in Nat
  BY ConfigTypes DEF ConfigInv, ConfigTypeOK
<1>8. running'[c] = r /\ \A d \in Caller \ {c} : running'[d] = running[d]
  BY <1>6, <1>7
<1>9. ConfigTypeOK'
  <2>1. running' \in [Caller -> ConfigCall] /\ overlapped' \in BOOLEAN
    BY <1>5, <1>6, <1>7
  <2>2. ConfigCall' = ConfigCall /\ ConfigObject' = ConfigObject /\ Field' = Field
    BY DEF ConfigCall, ConfigObject, Stored, Inputs, Field
  <2> QED
    BY <1>6, <2>1, <2>2 DEF ConfigInv, ConfigTypeOK
<1>10. for = "start" => \A d \in Caller : running[d] = Resting
  BY <1>6
<1>11. StartsAlone'
  <2> SUFFICES ASSUME NEW d \in Caller, NEW e \in Caller, running'[d].for = "start", d # e
               PROVE  running'[e] = Resting
    BY DEF StartsAlone, Resting
  <2>1. CASE d = c
    BY <1>5, <1>8, <1>10, <2>1
  <2>2. CASE d # c
    <3>1. running[d].for = "start" /\ running[d] # Resting
      BY <1>8, <2>2, RestingIs
    <3>2. provider = "unset"
      BY <3>1, CallerIs DEF CallFits
    <3> QED
      BY <1>6, <3>1, <3>2
  <2> QED
    BY <2>1, <2>2
<1>12. ASSUME NEW d \in Caller PROVE CallFits(running[d])'
  <2>1. PICK e : e = running'[d]
    OBVIOUS
  <2>2. CASE d = c
    <3>1. 0 <= Len(heap)
      BY <1>7
    <3>2. CallFits(r)'
      BY <1>1, <1>5, <1>6, <3>1 DEF CallFits, NoConfig
    <3> QED
      BY <1>8, <2>2, <3>2
  <2>3. CASE d # c
    <3>1. e = running[d]
      BY <1>8, <2>1, <2>3
    <3>2. CallFits(e)
      BY <3>1, CallerIs
    <3>3. CallFits(e)'
      BY <1>6, <3>2 DEF CallFits
    <3> QED
      BY <2>1, <3>3
  <2> QED
    BY <2>2, <2>3
<1>13. ASSUME ~overlapped'
       PROVE  /\ \A d, e \in Caller : d # e => running'[d] = Resting \/ running'[e] = Resting
              /\ ~AtRest' /\ \A d \in Caller : running'[d] # Resting => Quiet(running[d])'
  <2>1. AtRest /\ ~overlapped
    BY <1>6, <1>7, <1>13 DEF AtRest
  <2>2. Quiet(Resting)
    BY <2>1 DEF ConfigInv
  <2>3. (reply = "ok" => Fields \notin unsaved) /\ (attribute # NoConfig => Agrees(attribute))
    BY <2>2, RestingIs DEF Quiet
  <2>4. Quiet(r)'
    <3>1. reply' = "ok" => Fields \notin unsaved'
      BY <1>6, <2>3
    <3>2. attribute' # NoConfig => Agrees(attribute)'
      BY <1>6, <2>3 DEF Agrees
    <3> QED
      BY <1>1, <1>5, <3>1, <3>2 DEF Quiet
  <2>5. r # Resting
    BY <1>1, <1>5, RestingIs
  <2>6. \A d \in Caller \ {c} : running'[d] = Resting
    BY <1>8, <2>1 DEF AtRest
  <2>7. ~AtRest'
    BY <1>8, <2>5 DEF AtRest, Resting
  <2> QED
    BY <1>8, <2>4, <2>6, <2>7
<1> QED
  BY <1>6, <1>9, <1>11, <1>12, <1>13 DEF ConfigInv, Resting

LEMMA ConfigKeptSame ==
  ASSUME ConfigInv, UNCHANGED configEntityVars
  PROVE  ConfigInv'
<1>0. UNCHANGED <<document, heap, attribute, provider, running, failures, unsaved, overlapped, reply>>
  BY DEF configEntityVars
<1>1. ConfigTypeOK' /\ StartsAlone' /\ (provider' = "registered" /\ failures' = 0 => attribute' # NoConfig)
  BY <1>0 DEF ConfigInv, ConfigTypeOK, StartsAlone, ConfigCall, ConfigObject, Stored, Inputs, Field, Resting
<1>2. ASSUME NEW d \in Caller PROVE CallFits(running[d])'
  BY <1>0, CallerIs DEF CallFits
<1>3. ASSUME NEW r, Quiet(r) PROVE Quiet(r)'
  BY <1>0, <1>3 DEF Quiet, Agrees, Field
<1>4. ASSUME ~overlapped
      PROVE  /\ AtRest' => Quiet(Resting)'
             /\ \A c \in Caller : running'[c] # Resting => Quiet(running[c])'
             /\ \A c, d \in Caller : c # d => running'[c] = Resting \/ running'[d] = Resting
  <2>1. AtRest' => AtRest
    BY <1>0 DEF AtRest, Resting
  <2>2. ASSUME NEW c \in Caller, running[c] # Resting PROVE Quiet(running[c])'
    <3>1. PICK r : r = running[c]
      OBVIOUS
    <3>2. Quiet(r)'
      BY <1>3, <1>4, <2>2, <3>1, CallerIs
    <3> QED
      BY <1>0, <3>1, <3>2
  <2>3. AtRest => Quiet(Resting)'
    <3>1. PICK r : r = Resting
      OBVIOUS
    <3>2. AtRest => Quiet(r)'
      BY <1>3, <1>4, <3>1 DEF ConfigInv
    <3> QED
      BY <3>1, <3>2 DEF Resting
  <2> QED
    BY <1>0, <1>4, <2>1, <2>2, <2>3 DEF ConfigInv
<1> QED
  BY <1>0, <1>1, <1>2, <1>4 DEF ConfigInv, Resting

LEMMA ConfigEntityNextInv ==
  ASSUME ConfigInv, [ConfigEntityNext]_configEntityVars
  PROVE  ConfigInv'
<1>1. ASSUME NEW c \in Caller, NEW for \in {"start", "query", "ConfValue"}, Begin(c, for, <<>>) PROVE ConfigInv'
  BY <1>1, BeginInv
<1>2. ASSUME NEW c \in Caller, NEW input \in Inputs, NEW for \in {"mutate", "SetConfValue"}, Begin(c, for, input)
      PROVE ConfigInv'
  BY <1>2, BeginInv
<1> QED
  BY <1>1, <1>2, ConfigKeptSame, GetCachedInv, LoadConfigInv, AssignLoadedInv, GetReturnsInv, ParseInputInv,
     SetConfigInv, SaveFieldInv, SetReturnsInv, SaveNilInv, WrapperGetInv, WrapperSetValueInv, WrapperSetInv,
     AssignBackInv DEF ConfigEntityNext

LEMMA ConfigEntityInitInv ==
  ASSUME ConfigEntityInit
  PROVE  ConfigInv
<1>1. PICK w : w = Resting
  OBVIOUS
<1>2. w \in ConfigCall /\ w.at = "rest" /\ w.for = "" /\ w.object = 0 /\ ~w.failed /\ NoConfig = 0
  BY <1>1, RestingIs DEF NoConfig
<1>3. <<>> \in Seq(ConfigObject) /\ Len(<<>>) = 0
  OBVIOUS
<1>4. ConfigTypeOK
  <2>1. heap \in Seq(ConfigObject) /\ Len(heap) = 0
    BY <1>3 DEF ConfigEntityInit
  <2>2. attribute = 0
    BY DEF ConfigEntityInit, NoConfig
  <2>3. attribute \in 0..Len(heap)
    BY <2>1, <2>2
  <2>4. running \in [Caller -> ConfigCall]
    BY <1>1, <1>2 DEF ConfigEntityInit
  <2>5. document \in ConfigObject
    BY DEF ConfigEntityInit, ConfigObject, Stored
  <2> QED
    BY <2>1, <2>3, <2>4, <2>5 DEF ConfigEntityInit, ConfigTypeOK
<1>5. StartsAlone
  BY <1>1, <1>2 DEF ConfigEntityInit, StartsAlone
<1>6. CallFits(w)
  <2>1. Len(heap) = 0
    BY <1>3 DEF ConfigEntityInit
  <2>2. w.object = 0
    BY <1>2
  <2>3. w.object <= Len(heap)
    BY <2>1, <2>2
  <2> QED
    BY <2>3, <1>2 DEF CallFits
<1>7. Quiet(w)
  BY <1>2 DEF ConfigEntityInit, Quiet
<1>8. \A c \in Caller : running[c] = w
  BY <1>1 DEF ConfigEntityInit
<1> QED
  BY <1>1, <1>4, <1>5, <1>6, <1>7, <1>8 DEF ConfigEntityInit, ConfigInv

(* Where each call is, whatever else is under way, and what one that is    *)
(* alone finds and leaves (gen/dictionaries_generator.go 774-1045).        *)
THEOREM ConfigCallsFit == ConfigEntitySpec => []ConfigInv
<1>1. ConfigEntityInit => ConfigInv
  BY ConfigEntityInitInv
<1>2. ConfigInv /\ [ConfigEntityNext]_configEntityVars => ConfigInv'
  BY ConfigEntityNextInv
<1> QED
  BY <1>1, <1>2, PTL DEF ConfigEntitySpec

(* The engine's object and the documents agree, but for what failed, what  *)
(* an input assigned before it turned out wrong and what overlapped; "ok"  *)
(* vouches for the last field; a nil object follows a failed update only.  *)
THEOREM ConfigIsKept == ConfigEntitySpec => []ConfigKept
<1>1. ConfigInv => ConfigKept
  <2> SUFFICES ASSUME ConfigInv PROVE ConfigKept
    OBVIOUS
  <2>1. AtRest /\ ~overlapped => /\ attribute # NoConfig => Agrees(attribute)
                                 /\ reply = "ok" => Fields \notin unsaved
    BY RestingIs DEF ConfigInv, Quiet
  <2>2. ASSUME NEW c \in Caller, running[c].at = "panic" PROVE failures > 0
    BY <2>2, CallerIs DEF CallFits
  <2> QED
    BY <2>1, <2>2 DEF ConfigKept, Agrees
<1> QED
  BY <1>1, ConfigCallsFit, PTL
=============================================================================

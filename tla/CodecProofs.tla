----------------------------- MODULE CodecProofs -----------------------------
(***************************************************************************)
(* Proofs about CommandCodec, for every command: any launcher, any tokens, *)
(* any number of them.  The argument:                                      *)
(*   - the loop of decode keeps its accumulator well formed: a value that  *)
(*     was converted is converted to itself (ReadKeeps);                   *)
(*   - so what decode returns has a certain form (DecodeGives): the        *)
(*     launcher has no flag in it, an unknown token is no flag, every      *)
(*     field is settled, no token names a backend that is looked for first;*)
(*   - of settings of that form, encode writes the launcher, the model and *)
(*     one argument for each field that is set (EncodeIs), and the loop    *)
(*     reads exactly those fields back from them (ReadBack);               *)
(*   - the backend and the place where the arguments begin are found again *)
(*     (DetectFound, FirstFound, PositionalFound), hence decode gives the  *)
(*     same settings (EncodeDecode);                                       *)
(*   - what the form sends is encoded like what is left of it without the  *)
(*     blank texts (BlankUnwritten), which has that form too (ShownIs).    *)
(* What the folds compute is proved in FoldLemmas, once for every operator.*)
(***************************************************************************)
EXTENDS CommandCodec, TLAPS

CodecTypeOK == line \in Seq(Tokens) /\ pieces \in 0 .. MaxPieces

\* The loop of decode, and that of encode over its table.
ReadFold == INSTANCE FoldLemmas WITH Op <- Read
AddFold == INSTANCE FoldLemmas WITH Op <- AddFlag

\* What a field may hold.
Values == {<<>>} \cup {<<t>> : t \in Tokens}

\* A setting is what reading it again gives.
Settled(b, f, v) ==
    v # <<>> => \A row \in Flags(b) : row.field = f =>
                   IF row.kind = "bool" THEN v = <<Token("True")>>
                   ELSE Convert(row.kind, v[1]) = v

\* The fields that are never None.
Always == {"context_length", "port_token"}

\* The accumulators of the loop: while nothing was wrong, every field is settled.
Accumulators(b) ==
    {acc \in [fields : [Fields(b) -> Values], unknown : Seq(Tokens),
              wants : {<<>>} \cup {<<row>> : row \in {r \in Flags(b) : r.kind # "bool"}},
              ok : BOOLEAN] :
        acc.ok => \A f \in Fields(b) :
                     /\ Settled(b, f, acc.fields[f])
                     /\ f \in Always => acc.fields[f] # <<>>}

-----------------------------------------------------------------------------
(* The tables of flags. *)

\* A flag means one thing in a backend.
LEMMA FlagIsOne ==
    ASSUME NEW b \in AllBackends, NEW r \in Flags(b), NEW q \in Flags(b), r.flag = q.flag
    PROVE  r = q
  BY DEF AllBackends, Flags, Aliases, Written, Row, ToSet

\* A field is set by flags of one kind.
LEMMA KindIsOne ==
    ASSUME NEW b \in AllBackends, NEW r \in Flags(b), NEW q \in Flags(b), r.field = q.field
    PROVE  r.kind = q.kind
  BY DEF AllBackends, Flags, Aliases, Written, Row, ToSet

\* What the proofs need of the tables, for each backend: the flags are texts, the
\* encoder writes every field but the model and the port, and the context length first.
LEMMA FlagShape ==
    ASSUME NEW b \in AllBackends
    PROVE  /\ \A r \in Flags(b) : /\ r.flag \in STRING /\ r.flag \in FlagTexts(b)
                                  /\ r.field \in Fields(b)
                                  /\ r = Row(r.flag, r.field, r.kind)
           /\ \A text \in FlagTexts(b) : \E r \in Flags(b) : r.flag = text
           /\ FlagTexts(b) \subseteq DashedFlags
           /\ {"context_length", "port_token", "model_path"} \subseteq Fields(b)
           /\ Row("--port", "port_token", "str") \in Flags(b)
           /\ Row(ModelFlag(b), "model_path", "str") \in Flags(b)
           /\ Written(b) \in Seq(Flags(b)) /\ Len(Written(b)) \in Nat
           /\ \A f \in Fields(b) : \/ f \in {"port_token", "model_path"}
                                   \/ \E i \in 1 .. Len(Written(b)) : Written(b)[i].field = f
           /\ \A i \in 1 .. Len(Written(b)) :
                 Written(b)[i].field \notin {"port_token", "model_path"}
           /\ Written(b)[1].field = "context_length" /\ 1 \in 1 .. Len(Written(b))
           /\ Written(b)[1].kind = "int"
  <1>1. \A r \in Flags(b) : r.flag \in STRING
    <2>1. DashedFlags \subseteq STRING BY CodecConstants
    <2>2. FlagTexts(b) \subseteq DashedFlags BY Zenon DEF DashedFlags
    <2>3. \A r \in Flags(b) : r.flag \in FlagTexts(b) BY Zenon DEF FlagTexts
    <2> QED BY <2>1, <2>2, <2>3
  <1>2. \A r \in Flags(b) : /\ r.flag \in STRING /\ r.flag \in FlagTexts(b)
                            /\ r.field \in Fields(b)
    BY <1>1, Zenon DEF FlagTexts, Fields
  <1>3. \A text \in FlagTexts(b) : \E r \in Flags(b) : r.flag = text
    BY Zenon DEF FlagTexts
  <1>4. FlagTexts(b) \subseteq DashedFlags BY Zenon DEF DashedFlags
  <1>5. Written(b) \in Seq(Flags(b)) /\ Len(Written(b)) \in Nat
    <2>1. CASE b = "llama_cpp"
      <3> DEFINE w == Written("llama_cpp")
      <3>1. /\ Len(w) = 5 /\ w = [i \in 1 .. 5 |-> w[i]]
            /\ \A i \in 1 .. 5 : w[i] \in ToSet(w)
        BY DEF Written, ToSet
      <3>2. \A i \in 1 .. 5 : w[i] \in Flags(b) BY <2>1, <3>1 DEF Flags
      <3> HIDE DEF w
      <3>3. w \in Seq(Flags(b)) BY <3>1, <3>2
      <3> QED BY <2>1, <3>1, <3>3 DEF w
    <2>2. CASE b = "vllm"
      <3> DEFINE w == Written("vllm")
      <3>1. /\ Len(w) = 4 /\ w = [i \in 1 .. 4 |-> w[i]]
            /\ \A i \in 1 .. 4 : w[i] \in ToSet(w)
        BY DEF Written, ToSet
      <3>2. \A i \in 1 .. 4 : w[i] \in Flags(b) BY <2>2, <3>1 DEF Flags
      <3> HIDE DEF w
      <3>3. w \in Seq(Flags(b)) BY <3>1, <3>2
      <3> QED BY <2>2, <3>1, <3>3 DEF w
    <2>3. CASE b = "sglang"
      <3> DEFINE w == Written("sglang")
      <3>1. /\ Len(w) = 3 /\ w = [i \in 1 .. 3 |-> w[i]]
            /\ \A i \in 1 .. 3 : w[i] \in ToSet(w)
        BY DEF Written, ToSet
      <3>2. \A i \in 1 .. 3 : w[i] \in Flags(b) BY <2>3, <3>1 DEF Flags
      <3> HIDE DEF w
      <3>3. w \in Seq(Flags(b)) BY <3>1, <3>2
      <3> QED BY <2>3, <3>1, <3>3 DEF w
    <2> QED BY <2>1, <2>2, <2>3 DEF AllBackends
  <1> USE DEF AllBackends, Flags, Aliases, Written, Row, ToSet, ModelFlag
  <1>6. \A r \in Flags(b) : r = Row(r.flag, r.field, r.kind) OBVIOUS
  <1>7. /\ Row("--port", "port_token", "str") \in Flags(b)
        /\ Row(ModelFlag(b), "model_path", "str") \in Flags(b)
    OBVIOUS
  <1>8. \A i \in 1 .. Len(Written(b)) :
                 Written(b)[i].field \notin {"port_token", "model_path"}
    OBVIOUS
  <1>9. /\ Written(b)[1].field = "context_length" /\ 1 \in 1 .. Len(Written(b))
        /\ Written(b)[1].kind = "int"
    OBVIOUS
  <1>10. \A f \in Fields(b) : \/ f \in {"port_token", "model_path"}
                             \/ \E i \in 1 .. Len(Written(b)) : Written(b)[i].field = f
    BY DEF Fields
  <1>11. Row("--port", "port_token", "str").field = "port_token"
        /\ Row(ModelFlag(b), "model_path", "str").field = "model_path"
    OBVIOUS
  <1>12. Written(b)[1] \in Flags(b) OBVIOUS
  <1> USE DEF Fields
  <1> HIDE DEF Flags, Written, Row, ModelFlag
  <1>13. {"context_length", "port_token", "model_path"} \subseteq Fields(b)
    BY <1>7, <1>9, <1>11, <1>12
  <1> QED BY <1>2, <1>3, <1>4, <1>6, <1>7, <1>5, <1>8, <1>9, <1>10, <1>13, Zenon

-----------------------------------------------------------------------------
(* Reading. *)

\* A converted value is converted to itself.
LEMMA Canonical ==
    ASSUME NEW kind, NEW t \in Tokens, NEW v, v = Convert(kind, t), v # <<>>
    PROVE  /\ v \in Values /\ v[1] \in Tokens /\ v = <<v[1]>>
           /\ Convert(kind, v[1]) = v
  <1>1. \A text \in STRING : Token(text) \in Tokens /\ Token(text).head = text
    BY DEF Token, Tokens
  <1>2. CASE kind = "int"
    <2>1. t.head \in DOMAIN Numbers /\ v = <<Token(Numbers[t.head])>>
      BY <1>2 DEF Convert
    <2>2. /\ Numbers[t.head] \in STRING /\ Numbers[t.head] \in DOMAIN Numbers
          /\ Numbers[Numbers[t.head]] = Numbers[t.head]
      BY <2>1, CodecConstants
    <2>3. Convert("int", Token(Numbers[t.head])) = v BY <2>1, <2>2, <1>1 DEF Convert
    <2>4. v[1] = Token(Numbers[t.head])
      <3> HIDE DEF Token
      <3> QED BY <2>1
    <2>5. v[1] = Token(Numbers[t.head]) /\ v[1] \in Tokens BY <2>4, <2>2, <1>1
    <2> QED BY <2>1, <2>3, <2>5, <1>2 DEF Values
  <1>3. CASE kind = "json"
    <2>1. t.head \in DOMAIN Objects /\ v = <<Token(Objects[t.head])>>
      BY <1>3 DEF Convert
    <2>2. /\ Objects[t.head] \in STRING /\ Objects[t.head] \in DOMAIN Objects
          /\ Objects[Objects[t.head]] = Objects[t.head]
      BY <2>1, CodecConstants
    <2>3. Convert("json", Token(Objects[t.head])) = v BY <2>1, <2>2, <1>1 DEF Convert
    <2>4. v[1] = Token(Objects[t.head])
      <3> HIDE DEF Token
      <3> QED BY <2>1
    <2>5. v[1] = Token(Objects[t.head]) /\ v[1] \in Tokens BY <2>4, <2>2, <1>1
    <2> QED BY <2>1, <2>3, <2>5, <1>3 DEF Values
  <1>4. CASE kind \notin {"int", "json"}
    <2>1. v = <<t>> /\ v[1] = t BY <1>4 DEF Convert
    <2> QED BY <2>1 DEF Values
  <1> QED BY <1>2, <1>3, <1>4

\* A value that a flag sets is settled.
LEMMA SetKeeps ==
    ASSUME NEW b \in AllBackends, NEW acc \in Accumulators(b), NEW row \in Flags(b),
           NEW t \in Tokens, row.kind = "bool" => t = Token("True")
    PROVE  Set(acc, row, t) \in Accumulators(b)
  <1> DEFINE v == Convert(row.kind, t)
             new == Set(acc, row, t)
  <1>1. /\ acc \in [fields : [Fields(b) -> Values], unknown : Seq(Tokens),
              wants : {<<>>} \cup {<<r>> : r \in {q \in Flags(b) : q.kind # "bool"}},
              ok : BOOLEAN]
        /\ acc.ok => \A f \in Fields(b) : /\ Settled(b, f, acc.fields[f])
                                          /\ f \in Always => acc.fields[f] # <<>>
    BY DEF Accumulators
  <1>2. row.field \in Fields(b) BY FlagShape
  <1>3. v \in Values BY Canonical DEF Values
  <1>4. new = [fields |-> [acc.fields EXCEPT ![row.field] = v], unknown |-> acc.unknown,
               wants |-> <<>>, ok |-> acc.ok /\ v # <<>>]
    <2> HIDE DEF v
    <2>1. new = [acc EXCEPT !.fields[row.field] = v, !.ok = @ /\ v # <<>>, !.wants = <<>>]
      BY DEF Set, v
    <2> HIDE DEF new
    <2> QED BY <1>1, <2>1
  <1>5. v # <<>> => Settled(b, row.field, v)
    <2>1. SUFFICES ASSUME v # <<>>, NEW q \in Flags(b), q.field = row.field
          PROVE IF q.kind = "bool" THEN v = <<Token("True")>> ELSE Convert(q.kind, v[1]) = v
      BY DEF Settled
    <2>2. q.kind = row.kind BY <2>1, KindIsOne
    <2>3. Convert(row.kind, v[1]) = v BY <2>1, Canonical
    <2>4. row.kind = "bool" => v = <<Token("True")>> BY DEF Convert
    <2> QED BY <2>2, <2>3, <2>4
  <1> HIDE DEF v, new
  <1>6. new.ok => \A f \in Fields(b) : /\ Settled(b, f, new.fields[f])
                                       /\ f \in Always => new.fields[f] # <<>>
    <2>1. SUFFICES ASSUME new.ok, NEW f \in Fields(b)
          PROVE  Settled(b, f, new.fields[f]) /\ (f \in Always => new.fields[f] # <<>>)
      OBVIOUS
    <2>2. acc.ok /\ v # <<>> BY <2>1, <1>4
    <2>3. CASE f = row.field BY <2>2, <2>3, <1>1, <1>4, <1>5
    <2>4. CASE f # row.field BY <2>2, <2>4, <1>1, <1>4
    <2> QED BY <2>3, <2>4
  <1>7. new \in [fields : [Fields(b) -> Values], unknown : Seq(Tokens),
              wants : {<<>>} \cup {<<r>> : r \in {q \in Flags(b) : q.kind # "bool"}},
              ok : BOOLEAN]
    BY <1>1, <1>2, <1>3, <1>4
  <1>8. new \in Accumulators(b) BY <1>6, <1>7 DEF Accumulators
  <1> QED BY <1>8 DEF new

\* The row that Read chooses for a known flag.
LEMMA KnownRow ==
    ASSUME NEW b \in AllBackends, NEW r \in Flags(b), NEW text, text = r.flag
    PROVE  {q \in Flags(b) : q.flag = text} = {r}
           /\ (CHOOSE q \in {q \in Flags(b) : q.flag = text} : TRUE) = r
  <1>1. {q \in Flags(b) : q.flag = text} = {r} BY FlagIsOne
  <1>2. (CHOOSE q \in {r} : TRUE) = r OBVIOUS
  <1> QED BY <1>1, <1>2

\* A text alone is a token.
LEMMA TextToken ==
    ASSUME NEW text \in STRING
    PROVE  Token(text) \in Tokens /\ Token(text).head = text
  BY DEF Token, Tokens

\* So are the texts of the defaults.
LEMMA LiteralTokens ==
    /\ {Token("4096"), Token("${PORT}"), Token("True"), Token("auto")} \subseteq Tokens
    /\ Token("4096").head = "4096"
  <1>1. {"4096", "${PORT}", "True", "auto"} \subseteq STRING BY CodecConstants
  <1> HIDE DEF Token
  <1> QED BY <1>1, TextToken

\* What the loop does with a token that is awaited, unknown, or a known flag.
LEMMA ReadCases ==
    ASSUME NEW b \in AllBackends, NEW acc, NEW t \in Tokens
    PROVE  /\ acc.wants # <<>> => Read(acc, t, Flags(b)) = Set(acc, acc.wants[1], t)
           /\ acc.wants = <<>> /\ t.head \notin FlagTexts(b) =>
                 Read(acc, t, Flags(b)) = [acc EXCEPT !.unknown = Append(@, t)]
           /\ \A r \in Flags(b) : acc.wants = <<>> /\ t.head = r.flag =>
                 Read(acc, t, Flags(b)) =
                    IF r.kind = "bool" THEN Set(acc, r, Token("True"))
                    ELSE IF t.inline # <<>> THEN Set(acc, r, Token(t.inline[1]))
                    ELSE [acc EXCEPT !.wants = <<r>>]
  <1>1. ASSUME acc.wants # <<>> PROVE Read(acc, t, Flags(b)) = Set(acc, acc.wants[1], t)
    BY <1>1 DEF Read
  <1>2. ASSUME acc.wants = <<>>, t.head \notin FlagTexts(b)
        PROVE  Read(acc, t, Flags(b)) = [acc EXCEPT !.unknown = Append(@, t)]
    <2>1. {r \in Flags(b) : r.flag = t.head} = {} BY <1>2 DEF FlagTexts
    <2> QED BY <1>2, <2>1 DEF Read
  <1>3. ASSUME NEW r \in Flags(b), acc.wants = <<>>, t.head = r.flag
        PROVE  Read(acc, t, Flags(b)) =
                    IF r.kind = "bool" THEN Set(acc, r, Token("True"))
                    ELSE IF t.inline # <<>> THEN Set(acc, r, Token(t.inline[1]))
                    ELSE [acc EXCEPT !.wants = <<r>>]
    <2> DEFINE known == {q \in Flags(b) : q.flag = t.head}
    <2>1. known = {r} /\ (CHOOSE q \in known : TRUE) = r BY <1>3, KnownRow
    <2>2. known # {} BY <2>1
    <2> HIDE DEF known
    <2> QED BY <1>3, <2>1, <2>2 DEF Read, known
  <1> QED BY <1>1, <1>2, <1>3

\* The loop keeps its accumulator well formed.
LEMMA ReadKeeps ==
    ASSUME NEW b \in AllBackends, NEW acc \in Accumulators(b), NEW t \in Tokens
    PROVE  Read(acc, t, Flags(b)) \in Accumulators(b)
  <1>1. /\ acc \in [fields : [Fields(b) -> Values], unknown : Seq(Tokens),
              wants : {<<>>} \cup {<<r>> : r \in {q \in Flags(b) : q.kind # "bool"}},
              ok : BOOLEAN]
        /\ acc.ok => \A f \in Fields(b) : /\ Settled(b, f, acc.fields[f])
                                          /\ f \in Always => acc.fields[f] # <<>>
    BY DEF Accumulators
  <1>2. CASE acc.wants # <<>>
    <2>1. PICK r \in Flags(b) : r.kind # "bool" /\ acc.wants = <<r>> BY <1>1, <1>2
    <2>2. Read(acc, t, Flags(b)) = Set(acc, r, t) BY <1>2, <2>1, ReadCases
    <2> QED BY <2>1, <2>2, SetKeeps
  <1>3. CASE acc.wants = <<>> /\ t.head \notin FlagTexts(b)
    <2> DEFINE new == [acc EXCEPT !.unknown = Append(@, t)]
    <2>1. Read(acc, t, Flags(b)) = new BY <1>3, ReadCases
    <2>2. /\ new \in [fields : [Fields(b) -> Values], unknown : Seq(Tokens),
              wants : {<<>>} \cup {<<r>> : r \in {q \in Flags(b) : q.kind # "bool"}},
              ok : BOOLEAN]
          /\ new.fields = acc.fields /\ new.ok = acc.ok
      <3>1. Append(acc.unknown, t) \in Seq(Tokens) BY <1>1
      <3> QED BY <1>1, <3>1
    <2> HIDE DEF new
    <2> QED BY <1>1, <2>1, <2>2 DEF Accumulators
  <1>4. CASE acc.wants = <<>> /\ t.head \in FlagTexts(b)
    <2>1. PICK r \in Flags(b) : r.flag = t.head BY <1>4, FlagShape
    <2>2. CASE r.kind = "bool"
      <3>1. Read(acc, t, Flags(b)) = Set(acc, r, Token("True"))
        BY <1>4, <2>1, <2>2, ReadCases
      <3>2. Token("True") \in Tokens BY LiteralTokens
      <3> QED BY <3>1, <3>2, SetKeeps
    <2>3. CASE r.kind # "bool" /\ t.inline # <<>>
      <3>1. Read(acc, t, Flags(b)) = Set(acc, r, Token(t.inline[1]))
        BY <1>4, <2>1, <2>3, ReadCases
      <3>2. t.inline[1] \in STRING BY <2>3 DEF Tokens
      <3>3. Token(t.inline[1]) \in Tokens BY <3>2 DEF Token, Tokens
      <3> QED BY <3>1, <3>3, <2>3, SetKeeps
    <2>4. CASE r.kind # "bool" /\ t.inline = <<>>
      <3> DEFINE new == [acc EXCEPT !.wants = <<r>>]
      <3>1. Read(acc, t, Flags(b)) = new BY <1>4, <2>1, <2>4, ReadCases
      <3>2. /\ new \in [fields : [Fields(b) -> Values], unknown : Seq(Tokens),
                wants : {<<>>} \cup {<<q>> : q \in {p \in Flags(b) : p.kind # "bool"}},
                ok : BOOLEAN]
            /\ new.fields = acc.fields /\ new.ok = acc.ok
        BY <1>1, <2>4
      <3> HIDE DEF new
      <3> QED BY <1>1, <3>1, <3>2 DEF Accumulators
    <2> QED BY <2>2, <2>3, <2>4
  <1> QED BY <1>2, <1>3, <1>4

\* It begins with a well-formed one: the defaults and the positional model.
LEMMA StartShape ==
    ASSUME NEW b \in AllBackends, NEW path \in Values
    PROVE  /\ Defaults(b, path) \in Accumulators(b)
           /\ Defaults(b, path).unknown = <<>> /\ Defaults(b, path).wants = <<>>
           /\ Defaults(b, path).ok = TRUE
           /\ Defaults(b, path).fields["model_path"] = path
           /\ \A f \in Fields(b) \ {"context_length", "port_token", "model_path"} :
                 Defaults(b, path).fields[f] = <<>>
  <1> DEFINE start == Defaults(b, path)
             default(f) == CASE f = "context_length" -> <<Token("4096")>>
                             [] f = "port_token" -> <<Token("${PORT}")>>
                             [] f = "model_path" -> path
                             [] OTHER -> <<>>
  <1>1. start = [fields |-> [f \in Fields(b) |-> default(f)],
                 unknown |-> <<>>, wants |-> <<>>, ok |-> TRUE]
    BY DEF Defaults
  <1>2. /\ default("context_length") = <<Token("4096")>>
        /\ default("port_token") = <<Token("${PORT}")>>
        /\ default("model_path") = path
        /\ \A f : f \notin {"context_length", "port_token", "model_path"} => default(f) = <<>>
    OBVIOUS
  <1> HIDE DEF start, default
  <1>3. Token("4096") \in Tokens /\ Token("${PORT}") \in Tokens BY LiteralTokens
  <1>4. {"context_length", "port_token", "model_path"} \subseteq Fields(b) BY FlagShape
  <1>5. \A f \in Fields(b) : default(f) \in Values BY <1>2, <1>3 DEF Values
  <1>6. ASSUME NEW f \in Fields(b) PROVE Settled(b, f, default(f))
    <2>1. SUFFICES ASSUME default(f) # <<>>, NEW row \in Flags(b), row.field = f
          PROVE IF row.kind = "bool" THEN default(f) = <<Token("True")>>
                ELSE Convert(row.kind, default(f)[1]) = default(f)
      BY DEF Settled
    <2>2. CASE f = "context_length"
      <3>1. row.kind = "int"
        BY <2>1, <2>2, FlagShape, KindIsOne
      <3>2. default(f)[1] = Token("4096")
        <4>1. default(f) = <<Token("4096")>> BY <1>2, <2>2
        <4> QED BY <4>1
      <3>3. Convert("int", Token("4096")) = <<Token("4096")>>
        BY CodecConstants DEF Convert, Token
      <3> QED BY <1>2, <2>2, <3>1, <3>2, <3>3
    <2>3. CASE f \in {"port_token", "model_path"}
      <3>1. row.kind = "str"
        <4>1. Row("--port", "port_token", "str").field = "port_token"
              /\ Row("--port", "port_token", "str").kind = "str"
              /\ Row(ModelFlag(b), "model_path", "str").field = "model_path"
              /\ Row(ModelFlag(b), "model_path", "str").kind = "str"
          BY DEF Row
        <4>2. Row("--port", "port_token", "str") \in Flags(b)
              /\ Row(ModelFlag(b), "model_path", "str") \in Flags(b)
          BY FlagShape
        <4> QED BY <2>1, <2>3, <4>1, <4>2, KindIsOne
      <3>2. default(f) = <<default(f)[1]>>
        BY <2>1, <1>5 DEF Values
      <3> QED BY <3>1, <3>2 DEF Convert
    <2>4. CASE f \notin {"context_length", "port_token", "model_path"} BY <1>2, <2>1, <2>4
    <2> QED BY <2>2, <2>3, <2>4
  <1> DEFINE fields == [f \in Fields(b) |-> default(f)]
  <1>7. fields \in [Fields(b) -> Values] /\ \A f \in Fields(b) : fields[f] = default(f)
    BY <1>5
  <1>8. start = [fields |-> fields, unknown |-> <<>>, wants |-> <<>>, ok |-> TRUE]
    BY <1>1
  <1> HIDE DEF fields
  <1>9. \A t : <<t>> # <<>> OBVIOUS
  <1>10. \A f \in Always : default(f) # <<>> BY <1>2, <1>9, Zenon DEF Always
  <1>11. \A f \in Fields(b) : Settled(b, f, fields[f]) /\ (f \in Always => fields[f] # <<>>)
    BY <1>6, <1>7, <1>10, Zenon
  <1>12. /\ start \in [fields : [Fields(b) -> Values], unknown : Seq(Tokens),
              wants : {<<>>} \cup {<<r>> : r \in {q \in Flags(b) : q.kind # "bool"}},
              ok : BOOLEAN]
         /\ start.fields = fields /\ start.unknown = <<>> /\ start.wants = <<>>
         /\ start.ok = TRUE
    BY <1>7, <1>8
  <1>13. start \in Accumulators(b) BY <1>11, <1>12 DEF Accumulators
  <1> QED BY <1>2, <1>4, <1>7, <1>12, <1>13 DEF start

\* The loop is a fold over the tokens.
LEMMA ReadAllIs ==
    ASSUME NEW start, NEW tokens, NEW rows
    PROVE  ReadAll(start, tokens, rows) = ReadFold!Fold(start, tokens, rows)
  BY Zenon DEF ReadAll, ReadFold!Fold, FoldLeft, MapThenFoldSet, ReadFold!FoldLeft,
               ReadFold!MapThenFoldSet, Max, ReadFold!Max

\* Whatever the tokens, the loop ends with a well-formed accumulator.
LEMMA ReadAllKeeps ==
    ASSUME NEW b \in AllBackends, NEW start \in Accumulators(b), NEW tokens \in Seq(Tokens)
    PROVE  ReadAll(start, tokens, Flags(b)) \in Accumulators(b)
  <1>1. \A acc \in Accumulators(b), t \in Tokens : Read(acc, t, Flags(b)) \in Accumulators(b)
    BY ReadKeeps
  <1>2. ReadFold!Fold(start, tokens, Flags(b)) \in Accumulators(b)
    BY <1>1, ReadFold!FoldKeeps, Zenon
  <1> QED BY <1>2, ReadAllIs

-----------------------------------------------------------------------------
(* What decoding gives. *)

\* The next token is the positional model of vLLM.
Serves(tokens, i) == tokens[i] = Token("serve") /\ ~BeginsWithDash(tokens[i + 1])

\* These tokens name no backend that is looked for before b.
Compatible(b, tokens) ==
    /\ b # "sglang" => \A t \in tokens : ~NamesSglang(t)
    /\ b = "llama_cpp" => \A t \in tokens : ~NamesVllm(t)

\* The settings of a backend.
Settings(b) ==
    [backend : {b}, launch_tokens : Seq(Tokens), positional : BOOLEAN,
     fields : [Fields(b) -> Values], unknown_tokens : Seq(Tokens)]

\* What the launcher cannot have in it.
LaunchOnly(s) ==
    /\ s.launch_tokens # <<>>
    /\ Compatible(s.backend, ToSet(s.launch_tokens))
    /\ s.backend = "vllm" =>
          \A i \in 1 .. Len(s.launch_tokens) - 1 : ~Serves(s.launch_tokens, i)
    /\ s.positional => /\ s.backend = "vllm"
                       /\ s.launch_tokens[Len(s.launch_tokens)] = Token("serve")
    /\ ~s.positional =>
          \A t \in ToSet(s.launch_tokens) : t.head \notin FlagTexts(s.backend)

\* The form of what decode returns.
Decoded(s) ==
    /\ s.backend \in AllBackends /\ s \in Settings(s.backend)
    /\ LaunchOnly(s)
    /\ \A f \in Fields(s.backend) : /\ Settled(s.backend, f, s.fields[f])
                                    /\ f \in Always => s.fields[f] # <<>>
    /\ s.fields["model_path"] \notin {<<>>, <<Token("")>>}

\* The least element of a set of numbers.
LEMMA MinOf ==
    ASSUME NEW S \in SUBSET Nat, S # {}
    PROVE  Min(S) \in S /\ \A n \in S : Min(S) <= n
  <1>1. \E n \in S : \A m \in S : n <= m BY ReadFold!Least
  <1> QED BY <1>1 DEF Min

\* What is least is the minimum.
LEMMA MinIs ==
    ASSUME NEW S \in SUBSET Nat, NEW k \in S, \A n \in S : k <= n
    PROVE  Min(S) = k
  <1>1. Min(S) \in S /\ \A n \in S : Min(S) <= n BY MinOf
  <1>2. Min(S) \in Nat /\ k \in Nat /\ Min(S) <= k /\ k <= Min(S) BY <1>1
  <1> QED BY <1>2

\* _first_known_flag: no flag stands before the one it finds.
LEMMA FirstIs ==
    ASSUME NEW tokens \in Seq(Tokens), NEW texts
    PROVE  LET n == FirstKnownFlag(tokens, texts)
           IN  /\ n \in 0 .. Len(tokens)
               /\ n = 0 => \A i \in 1 .. Len(tokens) : tokens[i].head \notin texts
               /\ n # 0 => /\ tokens[n].head \in texts
                           /\ \A i \in 1 .. n - 1 : tokens[i].head \notin texts
  <1> DEFINE at == {i \in 1 .. Len(tokens) : tokens[i].head \in texts}
             n == FirstKnownFlag(tokens, texts)
  <1>1. n = IF at # {} THEN Min(at) ELSE 0 BY Zenon DEF FirstKnownFlag, SelectInSeq
  <1>2. at \in SUBSET Nat /\ Len(tokens) \in Nat OBVIOUS
  <1>3. \A i : i \in at <=> i \in 1 .. Len(tokens) /\ tokens[i].head \in texts OBVIOUS
  <1> HIDE DEF at, n
  <1>4. CASE at = {} BY <1>1, <1>2, <1>3, <1>4 DEF n
  <1>5. CASE at # {}
    <2>1. n \in at /\ \A i \in at : n <= i BY <1>1, <1>2, <1>5, MinOf
    <2> QED BY <1>2, <1>3, <2>1 DEF n
  <1> QED BY <1>4, <1>5

\* _first_known_flag finds a flag with none before it.
LEMMA FirstFound ==
    ASSUME NEW tokens \in Seq(Tokens), NEW texts, NEW k \in 1 .. Len(tokens),
           tokens[k].head \in texts, \A i \in 1 .. k - 1 : tokens[i].head \notin texts
    PROVE  FirstKnownFlag(tokens, texts) = k
  <1> DEFINE at == {i \in 1 .. Len(tokens) : tokens[i].head \in texts}
  <1>1. FirstKnownFlag(tokens, texts) = IF at # {} THEN Min(at) ELSE 0
    BY Zenon DEF FirstKnownFlag, SelectInSeq
  <1>2. at \in SUBSET Nat /\ k \in at /\ \A i \in at : k <= i OBVIOUS
  <1> HIDE DEF at
  <1>3. Min(at) = k BY <1>2, MinIs
  <1> QED BY <1>1, <1>2, <1>3

\* _vllm_positional_model: nothing is served before the model it finds.
LEMMA PositionalIs ==
    ASSUME NEW tokens \in Seq(Tokens)
    PROVE  LET n == PositionalModel(tokens)
           IN  /\ n = 0 \/ n \in 2 .. Len(tokens)
               /\ n = 0 => \A i \in 1 .. Len(tokens) - 1 : ~Serves(tokens, i)
               /\ n # 0 => /\ Serves(tokens, n - 1)
                           /\ \A i \in 1 .. n - 2 : ~Serves(tokens, i)
  <1> DEFINE at == {i \in 1 .. Len(tokens) - 1 : Serves(tokens, i)}
             n == PositionalModel(tokens)
  <1>1. n = IF at = {} THEN 0 ELSE Min(at) + 1 BY DEF PositionalModel, Serves
  <1>2. at \in SUBSET Nat /\ Len(tokens) \in Nat OBVIOUS
  <1>3. \A i : i \in at <=> i \in 1 .. Len(tokens) - 1 /\ Serves(tokens, i) OBVIOUS
  <1> HIDE DEF at, n
  <1>4. CASE at = {} BY <1>1, <1>2, <1>3, <1>4 DEF n
  <1>5. CASE at # {}
    <2>1. Min(at) \in at /\ \A i \in at : Min(at) <= i BY <1>2, <1>5, MinOf
    <2>2. Min(at) \in Nat /\ n = Min(at) + 1 BY <1>1, <1>2, <1>5, <2>1
    <2>3. n - 1 = Min(at) BY <2>2
    <2> QED BY <1>2, <1>3, <2>1, <2>2, <2>3 DEF n
  <1> QED BY <1>4, <1>5

\* _vllm_positional_model finds a model with none before it.
LEMMA PositionalFound ==
    ASSUME NEW tokens \in Seq(Tokens), NEW k \in 1 .. Len(tokens) - 1,
           Serves(tokens, k), \A i \in 1 .. k - 1 : ~Serves(tokens, i)
    PROVE  PositionalModel(tokens) = k + 1
  <1> DEFINE at == {i \in 1 .. Len(tokens) - 1 : Serves(tokens, i)}
  <1>1. PositionalModel(tokens) = IF at = {} THEN 0 ELSE Min(at) + 1
    BY DEF PositionalModel, Serves
  <1>2. at \in SUBSET Nat /\ k \in at /\ \A i \in at : k <= i OBVIOUS
  <1> HIDE DEF at
  <1>3. Min(at) = k BY <1>2, MinIs
  <1> QED BY <1>1, <1>2, <1>3

\* _detect_backend finds a backend that the tokens are compatible with.
LEMMA DetectIs ==
    ASSUME NEW tokens, NEW b \in AllBackends
    PROVE  /\ Detected(tokens) \in AllBackends
           /\ Compatible(Detected(tokens), tokens)
           /\ (b = "sglang" \/ Detected(tokens) \in {b, "llama_cpp"}) <=> Compatible(b, tokens)
           /\ \A some \in SUBSET tokens : Compatible(b, tokens) => Compatible(b, some)
  BY DEF Detected, Compatible, AllBackends

\* Whatever the command, what decoding gives is well formed.
LEMMA DecodeGives ==
    ASSUME NEW tokens \in Seq(Tokens), NEW s \in ToSet(Decode(tokens))
    PROVE  Decoded(s) /\ Decode(tokens) = <<s>>
  <1> DEFINE b == DetectBackend(tokens)
             positional == IF b = "vllm" THEN PositionalModel(tokens) ELSE 0
             first == IF positional # 0 THEN positional + 1
                      ELSE FirstKnownFlag(tokens, FlagTexts(b))
             launch == SubSeq(tokens, 1, IF positional # 0 THEN positional - 1 ELSE first - 1)
             path == IF positional # 0 THEN <<tokens[positional]>> ELSE <<>>
             end == ReadAll(Defaults(b, path), SubSeq(tokens, first, Len(tokens)), Flags(b))
             settings == [backend |-> b, launch_tokens |-> launch,
                          positional |-> positional # 0, fields |-> end.fields,
                          unknown_tokens |-> end.unknown]
             good == /\ tokens # <<>> /\ first # 0 /\ launch # <<>>
                     /\ end.ok /\ end.wants = <<>>
                     /\ end.fields["model_path"] \notin {<<>>, <<Token("")>>}
  <1>1. Decode(tokens) = IF good THEN <<settings>> ELSE <<>> BY DEF Decode
  <1>2. b \in AllBackends /\ Compatible(b, ToSet(tokens))
    <2>1. "vllm" \in AllBackends BY DEF AllBackends
    <2> QED BY <2>1, DetectIs, Zenon DEF DetectBackend
  <1>3. /\ positional = 0 \/ positional \in 2 .. Len(tokens)
        /\ positional # 0 => /\ b = "vllm" /\ Serves(tokens, positional - 1)
                             /\ \A i \in 1 .. positional - 2 : ~Serves(tokens, i)
        /\ positional = 0 /\ b = "vllm" => \A i \in 1 .. Len(tokens) - 1 : ~Serves(tokens, i)
    BY PositionalIs
  <1>4. positional = 0 => /\ first \in 0 .. Len(tokens)
                          /\ first # 0 => \A i \in 1 .. first - 1 :
                                             tokens[i].head \notin FlagTexts(b)
    BY FirstIs
  <1>5. positional # 0 => first = positional + 1 OBVIOUS
  <1>6. path \in Values BY <1>3 DEF Values
  <1>7. positional # 0 => path = <<tokens[positional]>> OBVIOUS
  <1>8. good /\ s = settings /\ Decode(tokens) = <<s>>
    <2> HIDE DEF good, settings
    <2>1. good BY <1>1 DEF ToSet
    <2> QED BY <1>1, <2>1 DEF ToSet
  <1>9. launch = SubSeq(tokens, 1, IF positional # 0 THEN positional - 1 ELSE first - 1)
    OBVIOUS
  <1>10. end = ReadAll(Defaults(b, path), SubSeq(tokens, first, Len(tokens)), Flags(b))
    OBVIOUS
  <1> HIDE DEF b, positional, first, launch, path, end
  <1>11. first \in 1 .. Len(tokens) + 1
    <2>1. first # 0 BY <1>8, Zenon
    <2>2. first # 0 /\ Len(tokens) \in Nat BY <2>1
    <2>3. CASE positional = 0 BY <1>4, <2>2, <2>3
    <2>4. CASE positional # 0 BY <1>5, <1>3, <2>2, <2>4
    <2> QED BY <2>3, <2>4
  <1>12. SubSeq(tokens, first, Len(tokens)) \in Seq(Tokens) BY <1>11
  <1>13. end \in Accumulators(b) BY <1>2, <1>6, <1>10, <1>12, StartShape, ReadAllKeeps
  <1>14. PICK n \in 0 .. Len(tokens) :
            /\ launch = SubSeq(tokens, 1, n)
            /\ n = IF positional # 0 THEN positional - 1 ELSE first - 1
    BY <1>3, <1>9, <1>11
  <1>15. /\ launch \in Seq(Tokens) /\ Len(launch) = n /\ DOMAIN launch = 1 .. n
         /\ \A i \in 1 .. n : launch[i] = tokens[i]
    BY <1>14
  <1>16. ToSet(launch) = {tokens[i] : i \in 1 .. n} /\ ToSet(launch) \subseteq ToSet(tokens)
    BY <1>15 DEF ToSet
  <1>17. LaunchOnly(settings)
    <2>1. settings.launch_tokens = launch /\ settings.backend = b
          /\ settings.positional = (positional # 0)
      OBVIOUS
    <2>2. launch # <<>> BY <1>8
    <2>3. Compatible(b, ToSet(launch)) BY <1>2, <1>16, DetectIs
    <2>4. ASSUME b = "vllm", NEW i \in 1 .. n - 1 PROVE ~Serves(launch, i)
      <3>1. launch[i] = tokens[i] /\ launch[i + 1] = tokens[i + 1] BY <1>15
      <3>2. ~Serves(tokens, i) BY <1>3, <1>4, <1>11, <1>14, <2>4
      <3> QED BY <3>1, <3>2 DEF Serves
    <2>5. ASSUME positional # 0 PROVE b = "vllm" /\ launch[n] = Token("serve")
      <3>1. n = positional - 1 /\ n \in 1 .. n BY <1>3, <1>14, <2>5
      <3> QED BY <1>3, <1>15, <2>5, <3>1 DEF Serves
    <2>6. ASSUME positional = 0, NEW t \in ToSet(launch) PROVE t.head \notin FlagTexts(b)
      <3>1. n = first - 1 BY <1>14, <2>6
      <3>2. PICK i \in 1 .. n : t = tokens[i] BY <1>16
      <3> QED BY <1>4, <1>11, <2>6, <3>1, <3>2
    <2> HIDE DEF settings
    <2> QED BY <2>1, <2>2, <2>3, <2>4, <2>5, <2>6, <1>15 DEF LaunchOnly
  <1>18. /\ end \in [fields : [Fields(b) -> Values], unknown : Seq(Tokens),
              wants : {<<>>} \cup {<<row>> : row \in {r \in Flags(b) : r.kind # "bool"}},
              ok : BOOLEAN]
         /\ \A f \in Fields(b) : /\ Settled(b, f, end.fields[f])
                                 /\ f \in Always => end.fields[f] # <<>>
    BY <1>8, <1>13 DEF Accumulators
  <1>19. settings \in Settings(b) BY <1>15, <1>18 DEF Settings
  <1>20. settings.backend = b /\ settings.fields = end.fields OBVIOUS
  <1>21. end.fields["model_path"] \notin {<<>>, <<Token("")>>} BY <1>8
  <1> HIDE DEF settings
  <1>22. Decoded(settings) BY <1>2, <1>17, <1>18, <1>19, <1>20, <1>21 DEF Decoded
  <1> QED BY <1>8, <1>22

-----------------------------------------------------------------------------
(* Reading what the encoder writes. *)

\* The loop stands between two arguments, and nothing was wrong so far.
Ready(b) ==
    [fields : [Fields(b) -> Values], unknown : Seq(Tokens), wants : {<<>>}, ok : {TRUE}]

\* One more field is set.
With(acc, f, v) == [acc EXCEPT !.fields[f] = v]

\* A field is set in a record.
LEMMA WithIs ==
    ASSUME NEW b, NEW acc \in Ready(b), NEW f \in Fields(b), NEW v \in Values
    PROVE  With(acc, f, v) = [fields |-> [acc.fields EXCEPT ![f] = v],
                              unknown |-> acc.unknown, wants |-> <<>>, ok |-> TRUE]
  <1>1. acc.wants = <<>> /\ acc.ok = TRUE BY DEF Ready
  <1>2. acc = [fields |-> acc.fields, unknown |-> acc.unknown, wants |-> acc.wants,
               ok |-> acc.ok]
    BY DEF Ready
  <1>3. With(acc, f, v) = [fields |-> [acc.fields EXCEPT ![f] = v],
                           unknown |-> acc.unknown, wants |-> acc.wants, ok |-> acc.ok]
    BY <1>1, <1>2 DEF With, Ready
  <1> QED BY <1>1, <1>3

\* The unknown tokens are set in a record.
LEMMA KeptIs ==
    ASSUME NEW b, NEW acc \in Ready(b), NEW more \in Seq(Tokens)
    PROVE  [acc EXCEPT !.unknown = more] = [fields |-> acc.fields, unknown |-> more,
                                            wants |-> <<>>, ok |-> TRUE]
  <1>1. acc.wants = <<>> /\ acc.ok = TRUE BY DEF Ready
  <1>2. acc = [fields |-> acc.fields, unknown |-> acc.unknown, wants |-> acc.wants,
               ok |-> acc.ok]
    BY DEF Ready
  <1>3. [acc EXCEPT !.unknown = more] = [fields |-> acc.fields, unknown |-> more,
                                         wants |-> acc.wants, ok |-> acc.ok]
    BY <1>1, <1>2 DEF Ready
  <1> QED BY <1>1, <1>3

\* Setting a settled value gives that value.
LEMMA SetIs ==
    ASSUME NEW b \in AllBackends, NEW acc, NEW row \in Flags(b), NEW t \in Tokens,
           acc \in [fields : [Fields(b) -> Values], unknown : Seq(Tokens),
                    wants : {<<>>, <<row>>}, ok : {TRUE}],
           Convert(row.kind, t) = <<t>>
    PROVE  /\ Set(acc, row, t) = [fields |-> [acc.fields EXCEPT ![row.field] = <<t>>],
                                  unknown |-> acc.unknown, wants |-> <<>>, ok |-> TRUE]
           /\ Set(acc, row, t) \in Ready(b)
  <1> DEFINE v == Convert(row.kind, t)
             new == Set(acc, row, t)
  <1>1. row.field \in Fields(b) BY FlagShape
  <1>2. v = <<t>> /\ v # <<>> /\ v \in Values BY DEF Values
  <1>3. new = [acc EXCEPT !.fields[row.field] = v, !.ok = @ /\ v # <<>>, !.wants = <<>>]
    BY DEF Set
  <1> HIDE DEF v, new
  <1>4. new = [fields |-> [acc.fields EXCEPT ![row.field] = v],
               unknown |-> acc.unknown, wants |-> <<>>, ok |-> TRUE]
    BY <1>2, <1>3
  <1>5. new \in Ready(b) BY <1>1, <1>2, <1>4 DEF Ready
  <1> QED BY <1>2, <1>4, <1>5 DEF new

\* A flag and its value, as the encoder writes them, are read as that value.
LEMMA ReadPair ==
    ASSUME NEW b \in AllBackends, NEW acc \in Ready(b), NEW row \in Flags(b),
           row.kind # "bool", NEW t \in Tokens, Settled(b, row.field, <<t>>)
    PROVE  LET new == ReadAll(acc, <<Token(row.flag), t>>, Flags(b))
           IN  /\ new = With(acc, row.field, <<t>>) /\ new \in Ready(b)
               /\ <<Token(row.flag), t>> \in Seq(Tokens)
  <1> DEFINE flag == Token(row.flag)
             mid == [acc EXCEPT !.wants = <<row>>]
             new == ReadAll(acc, <<flag, t>>, Flags(b))
  <1>1. acc \in [fields : [Fields(b) -> Values], unknown : Seq(Tokens),
                 wants : {<<>>}, ok : {TRUE}]
    BY DEF Ready
  <1>2. flag \in Tokens /\ flag.head = row.flag /\ flag.inline = <<>>
    BY FlagShape, TextToken DEF Token
  <1>3. Convert(row.kind, t) = <<t>>
    <2>1. <<t>> # <<>> /\ <<t>>[1] = t OBVIOUS
    <2> QED BY <2>1 DEF Settled
  <1> HIDE DEF flag
  <1>4. Read(acc, flag, Flags(b)) = mid BY <1>1, <1>2, ReadCases
  <1>5. /\ mid \in [fields : [Fields(b) -> Values], unknown : Seq(Tokens),
                    wants : {<<>>, <<row>>}, ok : {TRUE}]
        /\ mid.fields = acc.fields /\ mid.unknown = acc.unknown
        /\ mid.wants = <<row>> /\ mid.wants # <<>> /\ mid.wants[1] = row
    BY <1>1
  <1> HIDE DEF mid
  <1>6. Read(mid, t, Flags(b)) = Set(mid, row, t) BY <1>5, ReadCases
  <1>7. /\ Set(mid, row, t) = [fields |-> [mid.fields EXCEPT ![row.field] = <<t>>],
                               unknown |-> mid.unknown, wants |-> <<>>, ok |-> TRUE]
        /\ Set(mid, row, t) \in Ready(b)
    BY <1>3, <1>5, SetIs
  <1>8. new = Read(Read(acc, flag, Flags(b)), t, Flags(b)) BY ReadAllIs, ReadFold!FoldTwo, Zenon
  <1>9. new = Set(mid, row, t) BY <1>4, <1>6, <1>8
  <1> HIDE DEF new
  <1>10. new = With(acc, row.field, <<t>>)
    <2>1. row.field \in Fields(b) /\ <<t>> \in Values BY FlagShape DEF Values
    <2>2. With(acc, row.field, <<t>>) = [fields |-> [acc.fields EXCEPT ![row.field] = <<t>>],
                                         unknown |-> acc.unknown, wants |-> <<>>, ok |-> TRUE]
      BY <2>1, WithIs
    <2> QED BY <2>2, <1>5, <1>7, <1>9, Zenon
  <1> QED BY <1>2, <1>7, <1>9, <1>10 DEF new, flag

\* What _append writes for a field, a pair, a switch or nothing, is read as the
\* value of the field.
LEMMA ReadGroup ==
    ASSUME NEW b \in AllBackends, NEW acc \in Ready(b), NEW row \in Flags(b),
           NEW v \in Values, Settled(b, row.field, v),
           v # <<>> => v[1].head \notin Blank,
           v = <<>> => acc.fields[row.field] = <<>>
    PROVE  /\ ReadAll(acc, AppendFlag(row, v), Flags(b)) = With(acc, row.field, v)
           /\ With(acc, row.field, v) \in Ready(b)
           /\ AppendFlag(row, v) \in Seq({Token(row.flag)} \cup ToSet(v))
           /\ AppendFlag(row, v) \in Seq(Tokens)
           /\ v # <<>> => Token(row.flag) \in ToSet(AppendFlag(row, v))
  <1>1. acc \in [fields : [Fields(b) -> Values], unknown : Seq(Tokens),
                 wants : {<<>>}, ok : {TRUE}]
    BY DEF Ready
  <1>2. Token(row.flag) \in Tokens /\ Token(row.flag).head = row.flag
    BY FlagShape, TextToken
  <1>3. row.field \in Fields(b) BY FlagShape
  <1>4. CASE v = <<>>
    <2>1. AppendFlag(row, v) = <<>> BY <1>4 DEF AppendFlag
    <2>2. ReadAll(acc, <<>>, Flags(b)) = acc BY ReadAllIs, ReadFold!FoldEmpty, Zenon
    <2>3. With(acc, row.field, v) = acc BY <1>1, <1>4, <1>3 DEF With
    <2>4. <<>> \in Seq({Token(row.flag)} \cup ToSet(v)) /\ <<>> \in Seq(Tokens) OBVIOUS
    <2> QED BY <1>4, <2>1, <2>2, <2>3, <2>4, Zenon
  <1>5. CASE v # <<>> /\ row.kind # "bool"
    <2>1. PICK t \in Tokens : v = <<t>> BY <1>5 DEF Values
    <2>2. v[1] = t /\ ToSet(v) = {t} BY <2>1 DEF ToSet
    <2>3. AppendFlag(row, v) = <<Token(row.flag), t>> BY <1>5, <2>2 DEF AppendFlag
    <2>4. /\ ReadAll(acc, <<Token(row.flag), t>>, Flags(b)) = With(acc, row.field, v)
          /\ With(acc, row.field, v) \in Ready(b)
      BY <1>5, <2>1, ReadPair
    <2> DEFINE flag == Token(row.flag)
    <2> HIDE DEF flag
    <2>5. <<flag, t>> \in Seq({flag} \cup ToSet(v)) /\ flag \in ToSet(<<flag, t>>)
      BY <2>2 DEF ToSet
    <2>6. <<flag, t>> \in Seq(Tokens) BY <1>2 DEF flag
    <2> QED BY <1>5, <2>3, <2>4, <2>5, <2>6 DEF flag
  <1>6. CASE v # <<>> /\ row.kind = "bool"
    <2> DEFINE flag == Token(row.flag)
    <2>1. v = <<Token("True")>> BY <1>6 DEF Settled
    <2>2. AppendFlag(row, v) = <<flag>> BY <1>6 DEF AppendFlag
    <2>3. ReadAll(acc, <<flag>>, Flags(b)) = Read(acc, flag, Flags(b))
      BY ReadAllIs, ReadFold!FoldOne, Zenon
    <2>4. Token("True") \in Tokens BY LiteralTokens
    <2>5. Read(acc, flag, Flags(b)) = Set(acc, row, Token("True"))
      BY <1>1, <1>6, <1>2, ReadCases
    <2>6. Convert(row.kind, Token("True")) = <<Token("True")>> BY <1>6 DEF Convert
    <2>7. acc \in [fields : [Fields(b) -> Values], unknown : Seq(Tokens),
                    wants : {<<>>, <<row>>}, ok : {TRUE}]
      BY <1>1
    <2>8. /\ Set(acc, row, Token("True")) =
                 [fields |-> [acc.fields EXCEPT ![row.field] = v],
                  unknown |-> acc.unknown, wants |-> <<>>, ok |-> TRUE]
          /\ Set(acc, row, Token("True")) \in Ready(b)
      BY <2>1, <2>4, <2>6, <2>7, SetIs
    <2>9. Set(acc, row, Token("True")) = With(acc, row.field, v) BY <1>3, <2>8, WithIs
    <2>10. <<flag>> \in Seq({flag} \cup ToSet(v)) /\ flag \in ToSet(<<flag>>)
           /\ <<flag>> \in Seq(Tokens)
      <3> HIDE DEF flag
      <3> QED BY <1>2 DEF ToSet, flag
    <2> QED BY <2>2, <2>3, <2>5, <2>8, <2>9, <2>10
  <1> QED BY <1>4, <1>5, <1>6

\* A token that is no known flag is kept.
LEMMA ReadKept ==
    ASSUME NEW b \in AllBackends, NEW acc \in Ready(b), NEW t \in Tokens,
           t.head \notin FlagTexts(b)
    PROVE  Read(acc, t, Flags(b)) = [fields |-> acc.fields, unknown |-> Append(acc.unknown, t),
                                     wants |-> <<>>, ok |-> TRUE]
  <1> DEFINE new == [acc EXCEPT !.unknown = Append(@, t)]
  <1>1. acc.wants = <<>> /\ acc.unknown \in Seq(Tokens) BY DEF Ready
  <1>2. Read(acc, t, Flags(b)) = new BY <1>1, ReadCases
  <1>3. Append(acc.unknown, t) \in Seq(Tokens) BY <1>1
  <1>4. new = [fields |-> acc.fields, unknown |-> Append(acc.unknown, t),
               wants |-> <<>>, ok |-> TRUE]
    BY <1>3, KeptIs
  <1> QED BY <1>2, <1>4

\* Tokens that are no known flags are kept, in their order.
LEMMA ReadUnknown ==
    ASSUME NEW b \in AllBackends, NEW acc \in Ready(b), acc.unknown = <<>>,
           NEW tokens \in Seq(Tokens),
           \A t \in ToSet(tokens) : t.head \notin FlagTexts(b)
    PROVE  ReadAll(acc, tokens, Flags(b)) =
              [fields |-> acc.fields, unknown |-> tokens, wants |-> <<>>, ok |-> TRUE]
  <1> DEFINE Upto(i) == [fields |-> acc.fields, unknown |-> SubSeq(tokens, 1, i),
                         wants |-> <<>>, ok |-> TRUE]
             h == [i \in 0 .. Len(tokens) |-> Upto(i)]
  <1>1. Len(tokens) \in Nat OBVIOUS
  <1>2. Upto(0) = acc
    <2>1. acc.wants = <<>> /\ acc.ok = TRUE BY DEF Ready
    <2>2. acc = [fields |-> acc.fields, unknown |-> acc.unknown, wants |-> acc.wants,
                 ok |-> acc.ok]
      BY DEF Ready
    <2>3. SubSeq(tokens, 1, 0) = <<>> OBVIOUS
    <2> QED BY <2>1, <2>2, <2>3
  <1>3. ASSUME NEW i \in 1 .. Len(tokens)
        PROVE  Read(Upto(i - 1), tokens[i], Flags(b)) = Upto(i)
    <2>1. tokens[i] \in Tokens /\ tokens[i] \in ToSet(tokens) BY DEF ToSet
    <2>2. Append(SubSeq(tokens, 1, i - 1), tokens[i]) = SubSeq(tokens, 1, i) OBVIOUS
    <2> DEFINE last == Upto(i - 1)
    <2>3. last = [fields |-> acc.fields, unknown |-> SubSeq(tokens, 1, i - 1),
                  wants |-> <<>>, ok |-> TRUE]
      OBVIOUS
    <2> HIDE DEF last
    <2>4. SubSeq(tokens, 1, i - 1) \in Seq(Tokens) OBVIOUS
    <2>5. Append(SubSeq(tokens, 1, i - 1), tokens[i]) \in Seq(Tokens) BY <2>1, <2>4
    <2>6. last \in Ready(b) BY <2>3, <2>4 DEF Ready
    <2>7. last.wants = <<>> /\ last.unknown = SubSeq(tokens, 1, i - 1)
          /\ last.fields = acc.fields
      BY <2>3
    <2>8. tokens[i].head \notin FlagTexts(b) BY <2>1
    <2>9. Read(last, tokens[i], Flags(b)) =
             [fields |-> last.fields, unknown |-> Append(last.unknown, tokens[i]),
              wants |-> <<>>, ok |-> TRUE]
      BY <2>1, <2>6, <2>8, ReadKept, Zenon
    <2>10. Read(last, tokens[i], Flags(b)) = Upto(i) BY <2>2, <2>7, <2>9
    <2> QED BY <2>10 DEF last
  <1>4. h[0] = acc /\ h[Len(tokens)] = Upto(Len(tokens))
    <2> HIDE DEF Upto
    <2> QED BY <1>1, <1>2
  <1>5. \A i \in 1 .. Len(tokens) : h[i] = Read(h[i - 1], tokens[i], Flags(b))
    <2> HIDE DEF Upto
    <2>1. \A i \in 1 .. Len(tokens) : h[i] = Upto(i) /\ h[i - 1] = Upto(i - 1) BY <1>1
    <2> HIDE DEF h
    <2> QED BY <2>1, <1>3
  <1>6. SubSeq(tokens, 1, Len(tokens)) = tokens OBVIOUS
  <1> HIDE DEF h
  <1>7. ReadFold!IsRun(h, acc, tokens, Flags(b)) BY <1>4, <1>5, Zenon DEF ReadFold!IsRun
  <1>8. ReadFold!Fold(acc, tokens, Flags(b)) = h[Len(tokens)]
    BY <1>7, ReadFold!FoldIs, Zenon
  <1> QED BY <1>4, <1>6, <1>8, ReadAllIs, Zenon

\* The arguments that the encoder writes from its table.
WrittenTokens(b, fields) ==
    FoldLeft(LAMBDA tokens, row : AddFlag(tokens, row, fields), <<>>, Written(b))

\* The encoder folds over its rows.
LEMMA WrittenIs ==
    ASSUME NEW b, NEW fields
    PROVE  WrittenTokens(b, fields) = AddFold!Fold(<<>>, Written(b), fields)
  BY Zenon DEF WrittenTokens, AddFold!Fold, FoldLeft, MapThenFoldSet,
               AddFold!FoldLeft, AddFold!MapThenFoldSet, Max, AddFold!Max

\* The fields of the rows up to the k-th one are set, the others as they were.
Filled(b, acc, fields, k) ==
    [fields |-> [f \in Fields(b) |->
                   IF \E i \in 1 .. k : Written(b)[i].field = f
                   THEN fields[f] ELSE acc.fields[f]],
     unknown |-> acc.unknown, wants |-> <<>>, ok |-> TRUE]

\* The next row fills the next field.
LEMMA FilledNext ==
    ASSUME NEW b \in AllBackends, NEW acc \in Ready(b), NEW fields \in [Fields(b) -> Values],
           NEW k \in 0 .. Len(Written(b)) - 1
    PROVE  /\ Filled(b, acc, fields, k) \in Ready(b)
           /\ LET f == Written(b)[k + 1].field
              IN  With(Filled(b, acc, fields, k), f, fields[f]) =
                     Filled(b, acc, fields, k + 1)
           /\ \A f \in Fields(b) : acc.fields[f] = <<>> /\ fields[f] = <<>> =>
                 Filled(b, acc, fields, k).fields[f] = <<>>
  <1> DEFINE f0 == Written(b)[k + 1].field
             Has(f, n) == \E i \in 1 .. n : Written(b)[i].field = f
             now == [f \in Fields(b) |-> IF Has(f, k) THEN fields[f] ELSE acc.fields[f]]
             new == [f \in Fields(b) |-> IF Has(f, k + 1) THEN fields[f] ELSE acc.fields[f]]
  <1>1. Len(Written(b)) \in Nat /\ Written(b)[k + 1] \in Flags(b) /\ k + 1 \in Nat
    <2>1. Written(b) \in Seq(Flags(b)) /\ Len(Written(b)) \in Nat BY FlagShape
    <2> QED BY <2>1
  <1>2. f0 \in Fields(b) BY <1>1, FlagShape
  <1>3. acc.fields \in [Fields(b) -> Values] /\ acc.unknown \in Seq(Tokens) BY DEF Ready
  <1>4. now \in [Fields(b) -> Values]
    <2> HIDE DEF Has
    <2> QED BY <1>3
  <1>5. \A f : Has(f, k + 1) <=> Has(f, k) \/ f = f0
    <2>1. \A i : i \in 1 .. k + 1 <=> i \in 1 .. k \/ i = k + 1 OBVIOUS
    <2> QED BY <2>1
  <1>6. new = [now EXCEPT ![f0] = fields[f0]]
    <2> HIDE DEF Has, f0
    <2> QED BY <1>2, <1>5
  <1>7. /\ Filled(b, acc, fields, k) = [fields |-> now, unknown |-> acc.unknown,
                                        wants |-> <<>>, ok |-> TRUE]
        /\ Filled(b, acc, fields, k + 1) = [fields |-> new, unknown |-> acc.unknown,
                                            wants |-> <<>>, ok |-> TRUE]
    BY Zenon DEF Filled
  <1>8. \A f \in Fields(b) : acc.fields[f] = <<>> /\ fields[f] = <<>> => now[f] = <<>>
    <2> HIDE DEF Has
    <2> QED OBVIOUS
  <1> HIDE DEF now, new
  <1> DEFINE full == Filled(b, acc, fields, k)
  <1>9. full \in Ready(b) /\ full.fields = now /\ full.unknown = acc.unknown
    BY <1>3, <1>4, <1>7 DEF Ready
  <1> HIDE DEF full
  <1>10. fields[f0] \in Values BY <1>2
  <1>11. With(full, f0, fields[f0]) = [fields |-> [full.fields EXCEPT ![f0] = fields[f0]],
                                       unknown |-> full.unknown, wants |-> <<>>, ok |-> TRUE]
    BY <1>2, <1>9, <1>10, WithIs
  <1>12. With(full, f0, fields[f0]) = Filled(b, acc, fields, k + 1)
    BY <1>6, <1>7, <1>9, <1>11, Zenon
  <1> QED BY <1>8, <1>9, <1>12 DEF full

\* The loop reads one part of the tokens after the other.
LEMMA ReadConcat ==
    ASSUME NEW acc, NEW s \in Seq(Tokens), NEW t \in Seq(Tokens), NEW rows
    PROVE  ReadAll(acc, s \o t, rows) = ReadAll(ReadAll(acc, s, rows), t, rows)
  <1>1. ReadFold!Fold(acc, s \o t, rows) =
           ReadFold!Fold(ReadFold!Fold(acc, s, rows), t, rows)
    <2>1. s \in Seq(Tokens) /\ t \in Seq(Tokens) OBVIOUS
    <2>2. \A T : \A x, y \in Seq(T) : ReadFold!Fold(acc, x \o y, rows) =
           ReadFold!Fold(ReadFold!Fold(acc, x, rows), y, rows)
      BY ReadFold!FoldConcat, SMT
    <2> QED BY <2>1, <2>2, Zenon
  <1> QED BY <1>1, ReadAllIs, Zenon

\* The elements of two sequences one behind the other.
LEMMA ConcatTokens ==
    ASSUME NEW T, NEW s \in Seq(T), NEW t \in Seq(T)
    PROVE  /\ s \o t \in Seq(T) /\ Len(s \o t) = Len(s) + Len(t)
           /\ ToSet(s \o t) = ToSet(s) \cup ToSet(t)
           /\ \A i \in 1 .. Len(s) : (s \o t)[i] = s[i]
           /\ \A i \in 1 .. Len(t) : (s \o t)[Len(s) + i] = t[i]
  <1>1. /\ s \o t \in Seq(T) /\ Len(s \o t) = Len(s) + Len(t)
        /\ Len(s) \in Nat /\ Len(t) \in Nat
        /\ DOMAIN (s \o t) = 1 .. Len(s) + Len(t)
        /\ DOMAIN s = 1 .. Len(s) /\ DOMAIN t = 1 .. Len(t)
    OBVIOUS
  <1>2. \A i \in 1 .. Len(s) : (s \o t)[i] = s[i] OBVIOUS
  <1>3. \A i \in 1 .. Len(t) : (s \o t)[Len(s) + i] = t[i] OBVIOUS
  <1>4. ToSet(s \o t) = ToSet(s) \cup ToSet(t)
    <2> DEFINE both == s \o t
    <2>1. both = s \o t OBVIOUS
    <2> HIDE DEF both
    <2>2. \A i \in 1 .. Len(s) + Len(t) :
             \/ i \in 1 .. Len(s)
             \/ i - Len(s) \in 1 .. Len(t) /\ i = Len(s) + (i - Len(s))
      BY <1>1
    <2>3. \A i \in 1 .. Len(s) : i \in 1 .. Len(s) + Len(t) BY <1>1
    <2>4. \A i \in 1 .. Len(t) : Len(s) + i \in 1 .. Len(s) + Len(t) BY <1>1
    <2>5. ToSet(both) \subseteq ToSet(s) \cup ToSet(t) BY <1>1, <1>2, <1>3, <2>1, <2>2 DEF ToSet
    <2>6. ToSet(s) \subseteq ToSet(both) BY <1>1, <1>2, <2>1, <2>3 DEF ToSet
    <2>7. ToSet(t) \subseteq ToSet(both) BY <1>1, <1>3, <2>1, <2>4 DEF ToSet
    <2> QED BY <2>1, <2>5, <2>6, <2>7
  <1> QED BY <1>1, <1>2, <1>3, <1>4

\* What the encoder writes for its rows is read as the values of their fields.
LEMMA ReadWritten ==
    ASSUME NEW b \in AllBackends, NEW acc \in Ready(b),
           NEW fields \in [Fields(b) -> Values],
           \A f \in Fields(b) : Settled(b, f, fields[f]),
           \A f \in Fields(b) \ {"model_path", "port_token"} :
              /\ fields[f] # <<>> => fields[f][1].head \notin Blank
              /\ fields[f] = <<>> => acc.fields[f] = <<>>,
           fields["context_length"] # <<>>,
           NEW Allowed \in SUBSET Tokens,
           \A text \in FlagTexts(b) : Token(text) \in Allowed,
           \A f \in Fields(b) : ToSet(fields[f]) \subseteq Allowed
    PROVE  /\ WrittenTokens(b, fields) \in Seq(Allowed)
           /\ Token(Written(b)[1].flag) \in ToSet(WrittenTokens(b, fields))
           /\ ReadAll(acc, WrittenTokens(b, fields), Flags(b)) =
                 Filled(b, acc, fields, Len(Written(b)))
  <1> DEFINE W == Written(b)
             full(n) == Filled(b, acc, fields, n)
  <1>1. /\ W \in Seq(Flags(b)) /\ Len(W) \in Nat /\ Len(W) # 0
        /\ \A i \in 1 .. Len(W) : W[i] \in Flags(b)
                                  /\ W[i].field \notin {"port_token", "model_path"}
        /\ W[1].field = "context_length"
    <2>1. W \in Seq(Flags(b)) /\ Len(W) \in Nat BY FlagShape
    <2>2. /\ \A i \in 1 .. Len(W) : W[i].field \notin {"port_token", "model_path"}
          /\ W[1].field = "context_length" /\ 1 \in 1 .. Len(W)
      BY FlagShape
    <2> HIDE DEF W
    <2> QED BY <2>1, <2>2
  <1>2. Len(W) \in 0 .. Len(W) BY <1>1
  <1>3. PICK run : AddFold!IsRun(run, <<>>, W, fields)
                   /\ AddFold!Fold(<<>>, W, fields) = run[Len(W)]
    <2>1. \A T : \A w \in Seq(T) : \E run : AddFold!IsRun(run, <<>>, w, fields)
                   /\ AddFold!Fold(<<>>, w, fields) = run[Len(w)]
      BY AddFold!FoldRuns, Zenon
    <2> HIDE DEF W
    <2> QED BY <1>1, <2>1, Zenon
  <1> DEFINE S == {n \in 0 .. Len(W) :
                     /\ run[n] \in Seq(Allowed)
                     /\ n # 0 => Token(W[1].flag) \in ToSet(run[n])
                     /\ ReadAll(acc, run[n], Flags(b)) = full(n)}
  <1>4. run[0] = <<>> /\ \A i \in 1 .. Len(W) : run[i] = AddFlag(run[i - 1], W[i], fields)
    BY <1>3, Zenon DEF AddFold!IsRun
  <1>5. 0 \in S
    <2>1. ReadAll(acc, <<>>, Flags(b)) = acc BY ReadAllIs, ReadFold!FoldEmpty, Zenon
    <2>2. full(0) = acc
      <3>1. /\ acc.wants = <<>> /\ acc.ok = TRUE
            /\ acc.fields \in [Fields(b) -> Values]
            /\ acc = [fields |-> acc.fields, unknown |-> acc.unknown, wants |-> acc.wants,
                      ok |-> acc.ok]
        BY DEF Ready
      <3> DEFINE filled == [f \in Fields(b) |->
                              IF \E i \in 1 .. 0 : Written(b)[i].field = f
                              THEN fields[f] ELSE acc.fields[f]]
      <3>2. \A f : ~ \E i \in 1 .. 0 : Written(b)[i].field = f OBVIOUS
      <3>3. filled = acc.fields BY <3>1, <3>2
      <3>4. full(0) = [fields |-> filled, unknown |-> acc.unknown, wants |-> <<>>, ok |-> TRUE]
        BY Zenon DEF Filled
      <3> HIDE DEF filled, full
      <3> QED BY <3>1, <3>3, <3>4
    <2>3. <<>> \in Seq(Allowed) OBVIOUS
    <2>4. 0 \in 0 .. Len(W) BY <1>1
    <2> HIDE DEF full, W
    <2> QED BY <1>4, <2>1, <2>2, <2>3, <2>4, Zenon
  <1>6. \A n \in 0 .. Len(W) - 1 : n \in S => n + 1 \in S
    <2>1. SUFFICES ASSUME NEW n \in 0 .. Len(W) - 1, n \in S PROVE n + 1 \in S BY Zenon
    <2>2. n + 1 \in 1 .. Len(W) /\ n + 1 \in 0 .. Len(W) /\ (n + 1) - 1 = n /\ n + 1 # 0
      BY <1>1
    <2> DEFINE row == W[n + 1]
               v == fields[row.field]
    <2>3. /\ row \in Flags(b) /\ row.field \in Fields(b)
          /\ row.field \notin {"port_token", "model_path"} /\ row.flag \in FlagTexts(b)
      BY <1>1, <2>2, FlagShape
    <2>4. run[n] \in Seq(Allowed) /\ ReadAll(acc, run[n], Flags(b)) = full(n)
          /\ (n # 0 => Token(W[1].flag) \in ToSet(run[n]))
      BY <2>1
    <2>5. run[n + 1] = run[n] \o AppendFlag(row, v) BY <1>4, <2>2 DEF AddFlag
    <2>6. /\ full(n) \in Ready(b)
          /\ With(full(n), row.field, v) = full(n + 1)
          /\ acc.fields[row.field] = <<>> /\ v = <<>> => full(n).fields[row.field] = <<>>
      <3>1. n \in 0 .. Len(Written(b)) - 1 OBVIOUS
      <3>2. /\ Filled(b, acc, fields, n) \in Ready(b)
            /\ LET f == Written(b)[n + 1].field
               IN  With(Filled(b, acc, fields, n), f, fields[f]) =
                      Filled(b, acc, fields, n + 1)
            /\ \A f \in Fields(b) : acc.fields[f] = <<>> /\ fields[f] = <<>> =>
                  Filled(b, acc, fields, n).fields[f] = <<>>
        BY <3>1, FilledNext
      <3> QED BY <2>3, <3>2, Zenon
    <2>7. /\ v \in Values /\ Settled(b, row.field, v)
          /\ v # <<>> => v[1].head \notin Blank
          /\ v = <<>> => full(n).fields[row.field] = <<>>
      BY <2>3, <2>6
    <2>8. row.field = "context_length" => v # <<>> OBVIOUS
    <2>9. Token(row.flag) \in Allowed /\ ToSet(v) \subseteq Allowed BY <2>3
    <2>10. n = 0 => row.field = "context_length" BY <1>1
    <2>11. n = 0 => row = W[1] OBVIOUS
    <2> HIDE DEF full, v, row, S
    <2> DEFINE more == AppendFlag(row, v)
               set == {Token(row.flag)} \cup ToSet(v)
    <2>12. /\ ReadAll(full(n), more, Flags(b)) = With(full(n), row.field, v)
           /\ more \in Seq(set) /\ more \in Seq(Tokens)
           /\ v # <<>> => Token(row.flag) \in ToSet(more)
      BY <2>3, <2>6, <2>7, ReadGroup, Zenon
    <2>13. set \subseteq Allowed BY <2>9
    <2> HIDE DEF more, set
    <2>14. more \in Seq(Allowed) /\ run[n] \in Seq(Tokens) /\ more \in Seq(Tokens)
      BY <2>4, <2>12, <2>13
    <2>15. ReadAll(acc, run[n] \o more, Flags(b)) = full(n + 1)
      BY <2>4, <2>6, <2>12, <2>14, ReadConcat
    <2>16. /\ run[n] \o more \in Seq(Allowed)
           /\ ToSet(run[n] \o more) = ToSet(run[n]) \cup ToSet(more)
      BY <2>4, <2>14, ConcatTokens
    <2>17. Token(W[1].flag) \in ToSet(run[n] \o more)
      <3>1. CASE n = 0 BY <3>1, <2>12, <2>16, <2>8, <2>10, <2>11
      <3>2. CASE n # 0 BY <3>2, <2>4, <2>16
      <3> QED BY <3>1, <3>2
    <2> QED BY <2>2, <2>5, <2>15, <2>16, <2>17, Zenon DEF more, S
  <1>7. Len(W) \in S
    <2> HIDE DEF S, W
    <2> QED BY <1>1, <1>5, <1>6, <1>2, ReadFold!Induction, Zenon
  <1>8. WrittenTokens(b, fields) = run[Len(W)] BY <1>3, WrittenIs, Zenon
  <1> QED BY <1>1, <1>7, <1>8

\* The flags by themselves.
FlagTokens(b) == {Token(text) : text \in FlagTexts(b)}

\* No flag of a backend names one that is looked for before it, and the flags
\* that the encoder always writes name sglang and vLLM.
LEMMA FlagsCompatible ==
    ASSUME NEW b \in AllBackends
    PROVE  /\ Compatible(b, FlagTokens(b))
           /\ b = "sglang" => NamesSglang(Token(ModelFlag(b)))
           /\ b = "vllm" => NamesVllm(Token(Written(b)[1].flag))
           /\ \A text \in FlagTexts(b) : Token(text) # Token("serve")
                                         /\ BeginsWithDash(Token(text))
  <1>1. /\ \A text : Token(text).head = text /\ Token(text).inline = <<>>
        /\ ToSet(<<>>) = {}
    BY DEF Token, ToSet
  <1>2. FlagTexts(b) \cap (VllmWords \cup SglangWords) = {}
    BY CodecConstants, FlagShape
  <1>3. b # "sglang" => FlagTexts(b) \cap {"--model-path", "--context-length"} = {}
    BY DEF AllBackends, FlagTexts, Flags, Aliases, Written, Row, ToSet
  <1>4. \A text \in FlagTexts(b) : BeginsWithDash(Token(text))
    BY <1>1, FlagShape DEF BeginsWithDash
  <1>5. "serve" \notin FlagTexts(b)
    BY DEF AllBackends, FlagTexts, Flags, Aliases, Written, Row, ToSet
  <1>6. "--max-model-len" \in FlagTexts("vllm") \ FlagTexts("llama_cpp")
    BY DEF FlagTexts, Flags, Aliases, Written, Row, ToSet
  <1>7. b = "vllm" => Written(b)[1].flag = "--max-model-len" BY DEF Written, Row
  <1> HIDE DEF Token
  <1>8. \A text \in FlagTexts(b) : Token(text) # Token("serve") BY <1>1, <1>5
  <1>9. b # "sglang" => \A text \in FlagTexts(b) : ~NamesSglang(Token(text))
    BY <1>1, <1>2, <1>3 DEF NamesSglang
  <1>10. b = "llama_cpp" => \A text \in FlagTexts(b) : ~NamesVllm(Token(text))
    BY <1>1, <1>2 DEF NamesVllm
  <1>11. b = "vllm" => NamesVllm(Token(Written(b)[1].flag)) BY <1>1, <1>6, <1>7 DEF NamesVllm
  <1>12. b = "sglang" => NamesSglang(Token(ModelFlag(b)))
    BY <1>1 DEF NamesSglang, ModelFlag
  <1> QED BY <1>4, <1>8, <1>9, <1>10, <1>11, <1>12 DEF Compatible, FlagTokens

\* Tokens that name a backend, and none that is looked for before it.
LEMMA DetectFound ==
    ASSUME NEW b \in AllBackends, NEW tokens, Compatible(b, tokens),
           b = "sglang" => \E t \in tokens : NamesSglang(t),
           b = "vllm" => \E t \in tokens : NamesVllm(t)
    PROVE  Detected(tokens) = b
  BY DEF Detected, Compatible, AllBackends

\* The tokens that the encoder writes behind the launcher are among these.
FieldTokens(s) == UNION {ToSet(s.fields[f]) : f \in Fields(s.backend)}
Behind(s) == FlagTokens(s.backend) \cup (FieldTokens(s) \cup ToSet(s.unknown_tokens))

\* What the encoder writes names no other backend and holds no "serve".
LEMMA BehindIs ==
    ASSUME NEW s, Decoded(s), Representable(s)
    PROVE  /\ Behind(s) \in SUBSET Tokens
           /\ Compatible(s.backend, Behind(s))
           /\ Token("serve") \notin Behind(s)
  <1> DEFINE b == s.backend
             flags == FlagTokens(b)
             values == FieldTokens(s)
             rest == values \cup ToSet(s.unknown_tokens)
  <1>1. b \in AllBackends /\ s \in Settings(b) BY DEF Decoded
  <1>2. s.fields \in [Fields(b) -> Values] /\ s.unknown_tokens \in Seq(Tokens)
    BY <1>1 DEF Settings
  <1>3. DOMAIN s.fields = Fields(b) BY <1>2
  <1>4. /\ Token("serve") \notin rest
        /\ b = "sglang" \/ Detected(rest) \in {b, "llama_cpp"}
    BY <1>3 DEF Representable, FieldTokens
  <1>5. Compatible(b, rest) BY <1>1, <1>4, DetectIs
  <1>6. Compatible(b, flags) /\ Token("serve") \notin flags
    BY <1>1, FlagsCompatible DEF FlagTokens
  <1>7. Behind(s) = flags \cup rest BY Zenon DEF Behind
  <1>8. flags \in SUBSET Tokens
    <2>1. \A text \in FlagTexts(b) : text \in STRING BY <1>1, FlagShape
    <2> QED BY <2>1, TextToken DEF FlagTokens
  <1>9. values \in SUBSET Tokens
    <2>1. \A v \in Values : ToSet(v) \subseteq Tokens BY DEF Values, ToSet
    <2> QED BY <1>2, <2>1 DEF FieldTokens
  <1>10. ToSet(s.unknown_tokens) \in SUBSET Tokens BY <1>2 DEF ToSet
  <1> HIDE DEF flags, values
  <1> QED BY <1>4, <1>5, <1>6, <1>7, <1>8, <1>9, <1>10 DEF Compatible

\* What the encoder writes behind the model.
Rest(s) ==
    <<Token("--port"), s.fields["port_token"][1]>>
    \o (WrittenTokens(s.backend, s.fields) \o s.unknown_tokens)

\* The loop reads all that the encoder writes behind the model.
LEMMA ReadRest ==
    ASSUME NEW s, Decoded(s), Representable(s), NEW acc \in Ready(s.backend),
           acc.unknown = <<>>, acc.fields["model_path"] = s.fields["model_path"],
           \A f \in Fields(s.backend) \ {"context_length", "port_token", "model_path"} :
              acc.fields[f] = <<>>
    PROVE  /\ Rest(s) \in Seq(Behind(s))
           /\ WrittenTokens(s.backend, s.fields) \in Seq(Tokens)
           /\ Token(Written(s.backend)[1].flag) \in ToSet(Rest(s))
           /\ ReadAll(acc, Rest(s), Flags(s.backend)) =
                 [fields |-> s.fields, unknown |-> s.unknown_tokens,
                  wants |-> <<>>, ok |-> TRUE]
  <1> DEFINE b == s.backend
             port == s.fields["port_token"]
             pair == <<Token("--port"), port[1]>>
             written == WrittenTokens(b, s.fields)
             unknown == s.unknown_tokens
  <1>1. b \in AllBackends /\ s \in Settings(b) BY DEF Decoded
  <1>2. s.fields \in [Fields(b) -> Values] /\ unknown \in Seq(Tokens)
    BY <1>1 DEF Settings
  <1>3. /\ \A f \in Fields(b) : /\ Settled(b, f, s.fields[f])
                                /\ f \in Always => s.fields[f] # <<>>
        /\ s.fields["model_path"] # <<>>
    BY DEF Decoded
  <1>4. {"context_length", "port_token", "model_path"} \subseteq Fields(b) BY <1>1, FlagShape
  <1>5. port \in Values /\ port # <<>> /\ Settled(b, "port_token", port)
    BY <1>2, <1>3, <1>4 DEF Always
  <1>6. port = <<port[1]>> /\ port[1] \in Tokens /\ ToSet(port) = {port[1]}
    BY <1>5 DEF Values, ToSet
  <1>7. /\ \A f \in Fields(b) \ {"model_path", "port_token"} :
              s.fields[f] # <<>> => s.fields[f][1].head \notin Blank
        /\ \A t \in ToSet(unknown) : t.head \notin FlagTexts(b)
    <2>1. DOMAIN s.fields = Fields(b) BY <1>2
    <2>2. \A f \in Fields(b) \ {"model_path", "port_token"} :
              \A t \in ToSet(s.fields[f]) : t.head \notin Blank
      BY <2>1 DEF Representable
    <2>3. \A v \in Values : v # <<>> => v[1] \in ToSet(v) BY DEF Values, ToSet
    <2> QED BY <1>2, <2>2, <2>3 DEF Representable
  <1>8. Behind(s) \in SUBSET Tokens BY BehindIs
  <1>9. /\ \A text \in FlagTexts(b) : Token(text) \in Behind(s)
        /\ \A f \in Fields(b) : ToSet(s.fields[f]) \subseteq Behind(s)
        /\ ToSet(unknown) \subseteq Behind(s)
    BY Zenon DEF Behind, FlagTokens, FieldTokens
  <1>10. /\ Row("--port", "port_token", "str") \in Flags(b)
        /\ Row("--port", "port_token", "str").kind # "bool"
        /\ Row("--port", "port_token", "str").field = "port_token"
        /\ Row("--port", "port_token", "str").flag = "--port"
        /\ "--port" \in FlagTexts(b)
    <2>1. Row("--port", "port_token", "str") \in Flags(b) BY <1>1, FlagShape
    <2>2. /\ Row("--port", "port_token", "str").kind # "bool"
          /\ Row("--port", "port_token", "str").field = "port_token"
          /\ Row("--port", "port_token", "str").flag = "--port"
      BY DEF Row
    <2> QED BY <1>1, <2>1, <2>2, FlagShape
  <1> HIDE DEF b, port, pair, written, unknown
  <1>11. /\ ReadAll(acc, pair, Flags(b)) = With(acc, "port_token", port)
         /\ With(acc, "port_token", port) \in Ready(b)
         /\ pair \in Seq(Tokens)
    <2>1. acc \in Ready(b) BY DEF b
    <2>2. Settled(b, "port_token", <<port[1]>>) BY <1>5, <1>6
    <2>3. LET new == ReadAll(acc, <<Token("--port"), port[1]>>, Flags(b))
          IN  /\ new = With(acc, "port_token", <<port[1]>>) /\ new \in Ready(b)
              /\ <<Token("--port"), port[1]>> \in Seq(Tokens)
      BY <1>1, <1>6, <1>10, <2>1, <2>2, ReadPair
    <2> QED BY <1>6, <2>3 DEF pair
  <1> DEFINE acc2 == With(acc, "port_token", port)
  <1>12. acc2 = [fields |-> [acc.fields EXCEPT !["port_token"] = port],
                 unknown |-> acc.unknown, wants |-> <<>>, ok |-> TRUE]
    <2>1. acc \in Ready(b) BY DEF b
    <2> QED BY <2>1, <1>4, <1>5, WithIs
  <1>13. acc.fields \in [Fields(b) -> Values] BY DEF Ready, b
  <1>14. acc2 \in Ready(b) /\ ReadAll(acc, pair, Flags(b)) = acc2 BY <1>11
  <1> HIDE DEF acc2
  <1>15. /\ acc2.unknown = <<>> /\ acc2.fields["model_path"] = s.fields["model_path"]
         /\ acc2.fields["port_token"] = port
         /\ \A f \in Fields(b) \ {"context_length", "port_token", "model_path"} :
               acc2.fields[f] = <<>>
    BY <1>4, <1>12, <1>13 DEF b
  <1>16. /\ written \in Seq(Behind(s))
         /\ Token(Written(b)[1].flag) \in ToSet(written)
         /\ ReadAll(acc2, written, Flags(b)) = Filled(b, acc2, s.fields, Len(Written(b)))
    <2>1. \A f \in Fields(b) \ {"model_path", "port_token"} :
              /\ s.fields[f] # <<>> => s.fields[f][1].head \notin Blank
              /\ s.fields[f] = <<>> => acc2.fields[f] = <<>>
      BY <1>3, <1>7, <1>15 DEF Always
    <2>2. s.fields["context_length"] # <<>> BY <1>3, <1>4 DEF Always
    <2> QED BY <1>1, <1>2, <1>3, <1>8, <1>9, <1>14, <2>1, <2>2, ReadWritten DEF written
  <1> DEFINE acc3 == Filled(b, acc2, s.fields, Len(Written(b)))
  <1>17. acc3 = [fields |-> s.fields, unknown |-> <<>>, wants |-> <<>>, ok |-> TRUE]
    <2> DEFINE filled == [f \in Fields(b) |->
                            IF \E i \in 1 .. Len(Written(b)) : Written(b)[i].field = f
                            THEN s.fields[f] ELSE acc2.fields[f]]
    <2>1. \A f \in Fields(b) : \/ f \in {"port_token", "model_path"}
                               \/ \E i \in 1 .. Len(Written(b)) : Written(b)[i].field = f
      BY <1>1, FlagShape
    <2>2. \A f \in {"port_token", "model_path"} : acc2.fields[f] = s.fields[f]
      BY <1>15 DEF port
    <2>3. filled = s.fields BY <1>2, <2>1, <2>2
    <2>4. acc3 = [fields |-> filled, unknown |-> acc2.unknown, wants |-> <<>>, ok |-> TRUE]
      BY Zenon DEF Filled
    <2> HIDE DEF filled, acc3
    <2> QED BY <1>15, <2>3, <2>4
  <1>18. acc3 \in Ready(b) /\ acc3.fields = s.fields /\ acc3.unknown = <<>>
    <2>1. <<>> \in Seq(Tokens) OBVIOUS
    <2> HIDE DEF acc3
    <2> QED BY <1>2, <1>17, <2>1 DEF Ready
  <1>19. ReadAll(acc2, written, Flags(b)) = acc3 BY <1>16
  <1> HIDE DEF acc3
  <1>20. ReadAll(acc3, unknown, Flags(b)) =
            [fields |-> s.fields, unknown |-> unknown, wants |-> <<>>, ok |-> TRUE]
    BY <1>1, <1>2, <1>7, <1>18, ReadUnknown
  <1>21. written \in Seq(Tokens) BY <1>8, <1>16
  <1>22. written \o unknown \in Seq(Tokens) BY <1>2, <1>21
  <1>23. ReadAll(acc2, written \o unknown, Flags(b)) =
            [fields |-> s.fields, unknown |-> unknown, wants |-> <<>>, ok |-> TRUE]
    BY <1>2, <1>19, <1>20, <1>21, ReadConcat
  <1>24. ReadAll(acc, pair \o (written \o unknown), Flags(b)) =
            [fields |-> s.fields, unknown |-> unknown, wants |-> <<>>, ok |-> TRUE]
    BY <1>11, <1>14, <1>22, <1>23, ReadConcat
  <1>25. Rest(s) = pair \o (written \o unknown)
    BY DEF Rest, pair, written, unknown, port, b
  <1>26. pair \in Seq(Behind(s))
    <2>1. Token("--port") \in Behind(s) /\ port[1] \in Behind(s)
      <3>1. ToSet(port) \subseteq Behind(s) BY <1>4, <1>9 DEF port
      <3> QED BY <1>6, <1>9, <1>10, <3>1
    <2> DEFINE flag == Token("--port")
    <2> HIDE DEF flag
    <2>2. <<flag, port[1]>> \in Seq(Behind(s)) BY <2>1 DEF flag
    <2> QED BY <2>2 DEF pair, flag
  <1>27. unknown \in Seq(Behind(s)) BY <1>2, <1>9 DEF ToSet
  <1>28. /\ written \o unknown \in Seq(Behind(s))
         /\ ToSet(written \o unknown) = ToSet(written) \cup ToSet(unknown)
    BY <1>16, <1>27, ConcatTokens
  <1>29. /\ pair \o (written \o unknown) \in Seq(Behind(s))
         /\ ToSet(pair \o (written \o unknown)) = ToSet(pair) \cup ToSet(written \o unknown)
    <2> DEFINE more == written \o unknown
    <2>1. more \in Seq(Behind(s)) BY <1>28
    <2> HIDE DEF more
    <2>2. /\ pair \o more \in Seq(Behind(s))
          /\ ToSet(pair \o more) = ToSet(pair) \cup ToSet(more)
      BY <1>26, <2>1, ConcatTokens
    <2> QED BY <2>2 DEF more
  <1>30. Token(Written(b)[1].flag) \in ToSet(pair \o (written \o unknown))
    BY <1>16, <1>28, <1>29
  <1> QED BY <1>21, <1>24, <1>25, <1>29, <1>30 DEF b, unknown, written

\* Two sequences one behind the other are cut at their seam.
LEMMA ConcatParts ==
    ASSUME NEW T, NEW s \in Seq(T), NEW t \in Seq(T)
    PROVE  /\ SubSeq(s \o t, 1, Len(s)) = s
           /\ SubSeq(s \o t, Len(s) + 1, Len(s \o t)) = t
  <1>1. /\ s \o t \in Seq(T) /\ Len(s \o t) = Len(s) + Len(t)
        /\ Len(s) \in Nat /\ Len(t) \in Nat
        /\ \A i \in 1 .. Len(s) : (s \o t)[i] = s[i]
        /\ \A i \in 1 .. Len(t) : (s \o t)[Len(s) + i] = t[i]
    BY ConcatTokens
  <1> DEFINE both == s \o t
  <1> HIDE DEF both
  <1>2. SubSeq(both, 1, Len(s)) = s BY <1>1 DEF both
  <1>3. SubSeq(both, Len(s) + 1, Len(both)) = t BY <1>1 DEF both
  <1> QED BY <1>2, <1>3 DEF both

\* Concatenation as an operator of its own, so that the provers see no more of
\* it than these laws.
Cat(s, t) == s \o t

\* Concatenation is closed and associative.
LEMMA CatLaws ==
    ASSUME NEW T
    PROVE  /\ \A r, s \in Seq(T) : Cat(r, s) \in Seq(T)
           /\ \A r, s, t \in Seq(T) : Cat(Cat(r, s), t) = Cat(r, Cat(s, t))
  <1>1. \A r, s \in Seq(T) : Cat(r, s) \in Seq(T) BY DEF Cat
  <1>2. ASSUME NEW r \in Seq(T), NEW s \in Seq(T), NEW t \in Seq(T)
        PROVE  Cat(Cat(r, s), t) = Cat(r, Cat(s, t))
    BY DEF Cat
  <1> QED BY <1>1, <1>2

\* The seven parts that the encoder writes, in groups.
LEMMA CatSeven ==
    ASSUME NEW s1, NEW s2, NEW s3, NEW s4, NEW s5, NEW s6, NEW s7,
           {s1, s2, s3, s4, s5, s6, s7} \subseteq Seq(Tokens)
    PROVE  Cat(Cat(Cat(Cat(Cat(Cat(s1, s2), s3), s4), s5), s6), s7) =
           Cat(s1, Cat(Cat(s2, s3), Cat(Cat(s4, s5), Cat(s6, s7))))
  <1> DEFINE m == Cat(s2, s3)
             e == Cat(s4, s5)
             f == Cat(s6, s7)
             r == Cat(s1, m)
  <1>1. /\ s1 \in Seq(Tokens) /\ s2 \in Seq(Tokens) /\ s3 \in Seq(Tokens)
        /\ s4 \in Seq(Tokens) /\ s5 \in Seq(Tokens) /\ s6 \in Seq(Tokens)
        /\ s7 \in Seq(Tokens)
    OBVIOUS
  <1>2. /\ m \in Seq(Tokens) /\ e \in Seq(Tokens) /\ f \in Seq(Tokens)
        /\ r \in Seq(Tokens) /\ Cat(r, e) \in Seq(Tokens)
    BY <1>1, CatLaws
  <1>3. Cat(Cat(s1, s2), s3) = r BY <1>1, CatLaws
  <1>4. Cat(Cat(r, s4), s5) = Cat(r, e) BY <1>1, <1>2, CatLaws
  <1>5. Cat(Cat(Cat(r, e), s6), s7) = Cat(Cat(r, e), f) BY <1>1, <1>2, CatLaws
  <1>6. Cat(Cat(r, e), f) = Cat(r, Cat(e, f)) BY <1>1, <1>2, CatLaws
  <1>7. Cat(e, f) \in Seq(Tokens) BY <1>1, <1>2, CatLaws
  <1>8. Cat(r, Cat(e, f)) = Cat(s1, Cat(m, Cat(e, f))) BY <1>1, <1>2, <1>7, CatLaws
  <1> QED BY <1>3, <1>4, <1>5, <1>6, <1>8

\* Two tokens one behind the other.
LEMMA PairOf ==
    ASSUME NEW a, NEW b
    PROVE  <<a>> \o <<b>> = <<a, b>>
  <1>1. <<a>> \in Seq({a, b}) /\ <<b>> \in Seq({a, b}) /\ Len(<<a>>) = 1 /\ Len(<<b>>) = 1
    OBVIOUS
  <1> DEFINE both == <<a>> \o <<b>>
  <1>2. both \in Seq({a, b}) /\ Len(both) = 2 /\ both[1] = a /\ both[2] = b
    BY <1>1
  <1> HIDE DEF both
  <1>3. both = <<a, b>> BY <1>2
  <1> QED BY <1>3 DEF both

\* The model and, unless it is positional, its flag.
Model(s) ==
    IF s.positional THEN s.fields["model_path"]
    ELSE <<Token(ModelFlag(s.backend)), s.fields["model_path"][1]>>

\* The command that the encoder writes: launcher, model, and the rest.
LEMMA EncodeIs ==
    ASSUME NEW s, Decoded(s), Representable(s)
    PROVE  /\ Encode(s) = s.launch_tokens \o (Model(s) \o Rest(s))
           /\ s.launch_tokens \in Seq(Tokens)
           /\ Model(s) \in Seq(Behind(s)) /\ Rest(s) \in Seq(Behind(s))
           /\ Model(s) \o Rest(s) \in Seq(Behind(s))
           /\ Token(Written(s.backend)[1].flag) \in ToSet(Rest(s))
           /\ s.fields["model_path"] = <<s.fields["model_path"][1]>>
           /\ s.fields["model_path"][1] \in Tokens
           /\ ~s.positional => Token(ModelFlag(s.backend)) \in ToSet(Model(s))
  <1> DEFINE b == s.backend
             launch == s.launch_tokens
             path == s.fields["model_path"]
             port == s.fields["port_token"]
             flag == Token(ModelFlag(b))
             portFlag == Token("--port")
             written == WrittenTokens(b, s.fields)
             unknown == s.unknown_tokens
  <1>1. b \in AllBackends /\ s \in Settings(b) BY DEF Decoded
  <1>2. /\ s.fields \in [Fields(b) -> Values] /\ unknown \in Seq(Tokens)
        /\ launch \in Seq(Tokens) /\ s.positional \in BOOLEAN
    BY <1>1 DEF Settings
  <1>3. {"context_length", "port_token", "model_path"} \subseteq Fields(b) BY <1>1, FlagShape
  <1>4. path # <<>> /\ port # <<>> /\ (s.positional => b = "vllm")
    BY <1>3 DEF Decoded, Always, LaunchOnly
  <1>5. /\ path = <<path[1]>> /\ path[1] \in Tokens /\ path[1] \in ToSet(path)
        /\ port = <<port[1]>> /\ port[1] \in Tokens
    BY <1>2, <1>3, <1>4 DEF Values, ToSet
  <1>6. Behind(s) \in SUBSET Tokens BY BehindIs
  <1>7. flag \in Behind(s) /\ portFlag \in Tokens
    <2>1. /\ Row(ModelFlag(b), "model_path", "str").flag = ModelFlag(b)
          /\ Row("--port", "port_token", "str").flag = "--port"
      BY DEF Row
    <2>2. ModelFlag(b) \in FlagTexts(b) /\ "--port" \in FlagTexts(b)
      BY <1>1, <2>1, FlagShape
    <2>3. flag \in Behind(s) /\ portFlag \in Behind(s)
      BY <2>2, Zenon DEF Behind, FlagTokens
    <2> QED BY <1>6, <2>3
  <1>8. path[1] \in Behind(s) BY <1>3, <1>5, Zenon DEF Behind, FieldTokens
  <1>9. /\ Rest(s) \in Seq(Behind(s))
        /\ Token(Written(b)[1].flag) \in ToSet(Rest(s))
        /\ WrittenTokens(b, s.fields) \in Seq(Tokens)
    <2> DEFINE acc == [fields |-> [f \in Fields(b) |-> IF f = "model_path" THEN path ELSE <<>>],
                       unknown |-> <<>>, wants |-> <<>>, ok |-> TRUE]
    <2>1. path \in Values /\ <<>> \in Values /\ <<>> \in Seq(Tokens)
      BY <1>2, <1>3 DEF Values
    <2>2. acc \in Ready(b) /\ acc.unknown = <<>> /\ acc.fields["model_path"] = path
          /\ \A f \in Fields(b) \ {"context_length", "port_token", "model_path"} :
                acc.fields[f] = <<>>
      <3> HIDE DEF path
      <3> QED BY <1>3, <2>1 DEF Ready
    <2> HIDE DEF acc
    <2> QED BY <2>2, ReadRest
  <1>10. Encode(s) = ((((((launch \o (IF b = "vllm" /\ s.positional THEN <<>> ELSE <<flag>>))
                          \o path) \o <<portFlag>>) \o port) \o written) \o unknown)
    BY Zenon DEF Encode, WrittenTokens
  <1>11. Rest(s) = <<portFlag, port[1]>> \o (written \o unknown) BY DEF Rest
  <1>12. written \in Seq(Tokens) BY <1>9
  <1> DEFINE mark == IF b = "vllm" /\ s.positional THEN <<>> ELSE <<flag>>
  <1>13. mark \o path = Model(s) /\ mark \in Seq(Tokens)
    <2>1. CASE s.positional
      <3>1. mark = <<>> BY <1>4, <2>1
      <3>2. <<>> \o path = path /\ <<>> \in Seq(Tokens) BY <1>5
      <3> QED BY <2>1, <3>1, <3>2 DEF Model
    <2>2. CASE ~s.positional
      <3>1. mark = <<flag>> BY <2>2
      <3>2. <<flag>> \o <<path[1]>> = <<flag, path[1]>> BY PairOf
      <3>3. Model(s) = <<flag, path[1]>> BY <2>2 DEF Model
      <3>4. <<flag>> \in Seq(Tokens)
        <4> HIDE DEF flag
        <4> QED BY <1>6, <1>7
      <3> QED BY <1>5, <3>1, <3>2, <3>3, <3>4, Zenon
    <2> QED BY <2>1, <2>2
  <1>14. <<portFlag>> \o port = <<portFlag, port[1]>>
    BY <1>5, PairOf, Zenon
  <1>15. path \in Seq(Tokens) /\ port \in Seq(Tokens) /\ <<portFlag>> \in Seq(Tokens)
    <2>1. \A t \in Tokens : <<t>> \in Seq(Tokens) OBVIOUS
    <2> QED BY <1>5, <1>7, <2>1, Zenon
  <1>16. Model(s) \in Seq(Behind(s)) /\ (~s.positional => flag \in ToSet(Model(s)))
    <2>1. CASE s.positional
      <3>1. \A t \in Behind(s) : <<t>> \in Seq(Behind(s)) OBVIOUS
      <3>2. path \in Seq(Behind(s)) BY <1>5, <1>8, <3>1, Zenon
      <3> QED BY <2>1, <3>2 DEF Model, path
    <2>2. CASE ~s.positional
      <3>1. Model(s) = <<flag, path[1]>> BY <2>2 DEF Model
      <3> HIDE DEF flag, path
      <3>2. <<flag, path[1]>> \in Seq(Behind(s)) /\ flag \in ToSet(<<flag, path[1]>>)
        BY <1>7, <1>8 DEF ToSet
      <3> QED BY <2>2, <3>1, <3>2
    <2> QED BY <2>1, <2>2
  <1>17. Encode(s) = launch \o (Model(s) \o Rest(s))
    <2> HIDE DEF launch, mark, path, portFlag, port, written, unknown
    <2>1. Encode(s) = ((((((launch \o mark) \o path) \o <<portFlag>>) \o port) \o written)
                       \o unknown)
      BY <1>10 DEF launch, mark, path, portFlag, port, written, unknown
    <2>2. Rest(s) = (<<portFlag>> \o port) \o (written \o unknown)
      BY <1>11, <1>14 DEF written, unknown
    <2> DEFINE pf == <<portFlag>>
    <2>3. pf \in Seq(Tokens) BY <1>15
    <2> HIDE DEF pf
    <2>4. Cat(Cat(Cat(Cat(Cat(Cat(launch, mark), path), pf), port), written), unknown) =
             Cat(launch, Cat(Cat(mark, path), Cat(Cat(pf, port), Cat(written, unknown))))
      <3>1. {launch, mark, path, pf, port, written, unknown} \subseteq Seq(Tokens)
        BY <1>2, <1>12, <1>13, <1>15, <2>3 DEF launch, unknown
      <3> QED BY <3>1, CatSeven
    <2>5. Encode(s) = launch \o ((mark \o path) \o ((pf \o port) \o (written \o unknown)))
      BY <2>1, <2>4, Zenon DEF Cat, pf
    <2> QED BY <1>13, <2>2, <2>5, Zenon DEF pf
  <1>18. Model(s) \o Rest(s) \in Seq(Behind(s)) BY <1>9, <1>16, ConcatTokens
  <1> QED BY <1>2, <1>5, <1>9, <1>16, <1>17, <1>18

\* The loop begins between two arguments.
LEMMA StartReady ==
    ASSUME NEW b \in AllBackends, NEW path \in Values
    PROVE  Defaults(b, path) \in Ready(b)
  <1> DEFINE start == Defaults(b, path)
  <1>1. start \in Accumulators(b) /\ start.wants = <<>> /\ start.ok = TRUE BY StartShape
  <1> HIDE DEF start
  <1>2. start \in [fields : [Fields(b) -> Values], unknown : Seq(Tokens),
              wants : {<<>>} \cup {<<row>> : row \in {r \in Flags(b) : r.kind # "bool"}},
              ok : BOOLEAN]
    BY <1>1 DEF Accumulators
  <1>3. start \in Ready(b) BY <1>1, <1>2 DEF Ready
  <1> QED BY <1>3 DEF start

\* The loop reads what the encoder writes behind the launcher and, if it is
\* positional, the model.
LEMMA ReadBack ==
    ASSUME NEW s, Decoded(s), Representable(s)
    PROVE  LET path == IF s.positional THEN s.fields["model_path"] ELSE <<>>
               tokens == IF s.positional THEN Rest(s) ELSE Model(s) \o Rest(s)
           IN  ReadAll(Defaults(s.backend, path), tokens, Flags(s.backend)) =
                  [fields |-> s.fields, unknown |-> s.unknown_tokens,
                   wants |-> <<>>, ok |-> TRUE]
  <1> DEFINE b == s.backend
             path == s.fields["model_path"]
             result == [fields |-> s.fields, unknown |-> s.unknown_tokens,
                        wants |-> <<>>, ok |-> TRUE]
  <1>1. b \in AllBackends /\ s \in Settings(b) BY DEF Decoded
  <1>2. s.fields \in [Fields(b) -> Values] /\ s.positional \in BOOLEAN BY <1>1 DEF Settings
  <1>3. {"context_length", "port_token", "model_path"} \subseteq Fields(b) BY <1>1, FlagShape
  <1>4. path \in Values /\ <<>> \in Values BY <1>2, <1>3 DEF Values
  <1>5. path = <<path[1]>> /\ path[1] \in Tokens BY EncodeIs
  <1>6. Rest(s) \in Seq(Tokens)
    <2>1. Rest(s) \in Seq(Behind(s)) /\ Behind(s) \in SUBSET Tokens BY EncodeIs, BehindIs
    <2> QED BY <2>1
  <1>7. CASE s.positional
    <2> DEFINE start == Defaults(b, path)
    <2>1. start \in Ready(b) BY <1>1, <1>4, StartReady
    <2>2. /\ start.unknown = <<>> /\ start.fields["model_path"] = path
          /\ \A f \in Fields(b) \ {"context_length", "port_token", "model_path"} :
                start.fields[f] = <<>>
      BY <1>1, <1>4, StartShape
    <2> HIDE DEF start
    <2>3. ReadAll(start, Rest(s), Flags(b)) = result BY <2>1, <2>2, ReadRest
    <2> QED BY <1>7, <2>3 DEF start
  <1>8. CASE ~s.positional
    <2> DEFINE start == Defaults(b, <<>>)
               row == Row(ModelFlag(b), "model_path", "str")
               acc == With(start, "model_path", path)
    <2>1. start \in Ready(b) BY <1>1, <1>4, StartReady
    <2>2. /\ start.unknown = <<>>
          /\ \A f \in Fields(b) \ {"context_length", "port_token", "model_path"} :
                start.fields[f] = <<>>
      BY <1>1, <1>4, StartShape
    <2>3. /\ row \in Flags(b) /\ row.kind # "bool" /\ row.field = "model_path"
          /\ row.flag = ModelFlag(b)
      <3>1. row \in Flags(b) BY <1>1, FlagShape
      <3>2. row.kind # "bool" /\ row.field = "model_path" /\ row.flag = ModelFlag(b) BY DEF Row
      <3> QED BY <3>1, <3>2
    <2>4. Settled(b, "model_path", <<path[1]>>) BY <1>3, <1>5 DEF Decoded
    <2>5. Model(s) = <<Token(ModelFlag(b)), path[1]>> BY <1>8 DEF Model
    <2> HIDE DEF start, row, b, path
    <2>6. /\ ReadAll(start, Model(s), Flags(b)) = acc /\ acc \in Ready(b)
          /\ Model(s) \in Seq(Tokens)
      <3>1. LET new == ReadAll(start, <<Token(row.flag), path[1]>>, Flags(b))
            IN  /\ new = With(start, row.field, <<path[1]>>) /\ new \in Ready(b)
                /\ <<Token(row.flag), path[1]>> \in Seq(Tokens)
        BY <1>1, <1>5, <2>1, <2>3, <2>4, ReadPair
      <3> QED BY <1>5, <2>3, <2>5, <3>1
    <2>7. acc = [fields |-> [start.fields EXCEPT !["model_path"] = path],
                 unknown |-> start.unknown, wants |-> <<>>, ok |-> TRUE]
      BY <1>3, <1>4, <2>1, WithIs
    <2>8. start.fields \in [Fields(b) -> Values] BY <2>1 DEF Ready
    <2> HIDE DEF acc
    <2>9. /\ acc.unknown = <<>> /\ acc.fields["model_path"] = path
          /\ \A f \in Fields(b) \ {"context_length", "port_token", "model_path"} :
                acc.fields[f] = <<>>
      BY <1>3, <2>2, <2>7, <2>8
    <2>10. ReadAll(acc, Rest(s), Flags(b)) = result BY <2>6, <2>9, ReadRest DEF b, path
    <2>11. ReadAll(start, Model(s) \o Rest(s), Flags(b)) = result
      BY <1>6, <2>6, <2>10, ReadConcat
    <2> QED BY <1>8, <2>11 DEF start, b
  <1> QED BY <1>2, <1>7, <1>8

\* How decode cuts the tokens, and what its loop ends with.
Cuts(tokens, b, positional, first, launch, path) ==
    /\ b = DetectBackend(tokens)
    /\ positional = IF b = "vllm" THEN PositionalModel(tokens) ELSE 0
    /\ first = IF positional # 0 THEN positional + 1
               ELSE FirstKnownFlag(tokens, FlagTexts(b))
    /\ launch = SubSeq(tokens, 1, IF positional # 0 THEN positional - 1 ELSE first - 1)
    /\ path = IF positional # 0 THEN <<tokens[positional]>> ELSE <<>>
    /\ tokens # <<>> /\ first # 0 /\ launch # <<>>

EndsWith(tokens, b, first, path, fields, unknown) ==
    /\ ReadAll(Defaults(b, path), SubSeq(tokens, first, Len(tokens)), Flags(b)) =
          [fields |-> fields, unknown |-> unknown, wants |-> <<>>, ok |-> TRUE]
    /\ fields["model_path"] \notin {<<>>, <<Token("")>>}

\* What decode gives for its cuts and the end of its loop.
LEMMA DecodeIs ==
    ASSUME NEW tokens, NEW b, NEW positional, NEW first, NEW launch, NEW path,
           NEW fields, NEW unknown,
           Cuts(tokens, b, positional, first, launch, path),
           EndsWith(tokens, b, first, path, fields, unknown)
    PROVE  Decode(tokens) =
              <<[backend |-> b, launch_tokens |-> launch, positional |-> positional # 0,
                 fields |-> fields, unknown_tokens |-> unknown]>>
  <1> DEFINE end == [fields |-> fields, unknown |-> unknown, wants |-> <<>>, ok |-> TRUE]
             settings == [backend |-> b, launch_tokens |-> launch,
                          positional |-> positional # 0, fields |-> end.fields,
                          unknown_tokens |-> end.unknown]
             good == /\ tokens # <<>> /\ first # 0 /\ launch # <<>>
                     /\ end.ok /\ end.wants = <<>>
                     /\ end.fields["model_path"] \notin {<<>>, <<Token("")>>}
  <1>1. end.fields = fields /\ end.unknown = unknown /\ end.wants = <<>> /\ end.ok = TRUE
    OBVIOUS
  <1>2. ReadAll(Defaults(b, path), SubSeq(tokens, first, Len(tokens)), Flags(b)) = end
    BY DEF EndsWith
  <1> HIDE DEF end
  <1>3. Decode(tokens) = IF good THEN <<settings>> ELSE <<>>
    BY <1>2, Zenon DEF Decode, Cuts
  <1>4. good BY <1>1 DEF Cuts, EndsWith
  <1> QED BY <1>1, <1>3, <1>4, Zenon

\* A command written from settings that a command can say decodes to them.
LEMMA EncodeDecode ==
    ASSUME NEW s, Decoded(s), Representable(s)
    PROVE  Decode(Encode(s)) = <<s>>
  <1> DEFINE b == s.backend
             launch == s.launch_tokens
             path == s.fields["model_path"]
             model == Model(s)
             tail == Rest(s)
             rest == model \o tail
             all == Encode(s)
             n == Len(launch)
  <1>1. b \in AllBackends /\ s \in Settings(b) BY DEF Decoded
  <1>2. /\ launch \in Seq(Tokens) /\ launch # <<>> /\ s.positional \in BOOLEAN
        /\ Compatible(b, ToSet(launch))
        /\ b = "vllm" => \A i \in 1 .. n - 1 : ~Serves(launch, i)
        /\ s.positional => b = "vllm" /\ launch[n] = Token("serve")
        /\ ~s.positional => \A t \in ToSet(launch) : t.head \notin FlagTexts(b)
    <2>1. launch \in Seq(Tokens) /\ s.positional \in BOOLEAN BY <1>1 DEF Settings
    <2> QED BY <2>1 DEF Decoded, LaunchOnly
  <1>3. /\ all = launch \o rest
        /\ model \in Seq(Behind(s)) /\ tail \in Seq(Behind(s)) /\ rest \in Seq(Behind(s))
        /\ Token(Written(b)[1].flag) \in ToSet(tail)
        /\ path = <<path[1]>> /\ path[1] \in Tokens
        /\ ~s.positional => Token(ModelFlag(b)) \in ToSet(model)
    BY EncodeIs
  <1>4. /\ Behind(s) \in SUBSET Tokens /\ Compatible(b, Behind(s))
        /\ Token("serve") \notin Behind(s)
    BY BehindIs
  <1>5. path # <<>> /\ path # <<Token("")>> BY DEF Decoded
  <1>6. s.positional => model = <<path[1]>> /\ ~BeginsWithDash(path[1])
    <2>1. {"model_path"} \subseteq Fields(b) BY <1>1, FlagShape
    <2>2. path[1] \in ToSet(path)
      <3>1. \A t : t \in ToSet(<<t>>) BY DEF ToSet
      <3> QED BY <1>3, <3>1, Zenon
    <2> QED BY <1>3, <2>2 DEF Model, Representable
  <1>7. ~s.positional => model = <<Token(ModelFlag(b)), path[1]>>
    BY DEF Model
  <1>8. /\ ToSet(rest) = ToSet(model) \cup ToSet(tail)
        /\ Len(rest) = Len(model) + Len(tail)
        /\ \A i \in 1 .. Len(model) : rest[i] = model[i]
        /\ rest \in Seq(Tokens) /\ model \in Seq(Tokens) /\ tail \in Seq(Tokens)
        /\ Len(tail) \in Nat /\ Len(model) \in Nat /\ Len(tail) # 0
    <2>1. model \in Seq(Tokens) /\ tail \in Seq(Tokens)
      <3> HIDE DEF model, tail
      <3> QED BY <1>3, <1>4
    <2>2. tail # <<>> BY <1>3 DEF ToSet
    <2> HIDE DEF model, tail
    <2>3. Len(tail) # 0 /\ Len(tail) \in Nat /\ Len(model) \in Nat BY <2>1, <2>2
    <2> QED BY <2>1, <2>3, ConcatTokens
  <1> HIDE DEF b, launch, path, model, tail, rest, all
  <1>9. /\ all \in Seq(Tokens) /\ Len(all) = n + Len(rest)
        /\ ToSet(all) = ToSet(launch) \cup ToSet(rest)
        /\ \A i \in 1 .. n : all[i] = launch[i]
        /\ \A i \in 1 .. Len(rest) : all[n + i] = rest[i]
        /\ n \in Nat /\ n # 0
    <2>1. /\ launch \o rest \in Seq(Tokens) /\ Len(launch \o rest) = Len(launch) + Len(rest)
          /\ ToSet(launch \o rest) = ToSet(launch) \cup ToSet(rest)
          /\ \A i \in 1 .. Len(launch) : (launch \o rest)[i] = launch[i]
          /\ \A i \in 1 .. Len(rest) : (launch \o rest)[Len(launch) + i] = rest[i]
      <3>1. launch \in Seq(Tokens) /\ rest \in Seq(Tokens) BY <1>2, <1>8
      <3> QED BY <3>1, ConcatTokens
    <2>2. n \in Nat /\ n # 0 BY <1>2
    <2> QED BY <1>3, <2>1, <2>2
  <1>10. ToSet(rest) \subseteq Behind(s)
    <2>1. rest \in Seq(Behind(s)) BY <1>3
    <2> QED BY <2>1 DEF ToSet
  <1>11. DetectBackend(all) = b
    <2>1. Compatible(b, ToSet(all)) BY <1>2, <1>4, <1>9, <1>10 DEF Compatible
    <2>2. b = "sglang" => NamesSglang(Token(ModelFlag(b)))
                          /\ Token(ModelFlag(b)) \in ToSet(all)
      <3>1. b = "sglang" => ~s.positional BY <1>2
      <3>2. b = "sglang" => NamesSglang(Token(ModelFlag(b))) BY <1>1, FlagsCompatible
      <3> QED BY <3>1, <3>2, <1>2, <1>3, <1>8, <1>9
    <2>3. b = "vllm" => NamesVllm(Token(Written(b)[1].flag))
                        /\ Token(Written(b)[1].flag) \in ToSet(all)
      <3>1. b = "vllm" => NamesVllm(Token(Written(b)[1].flag)) BY <1>1, FlagsCompatible
      <3> QED BY <3>1, <1>3, <1>8, <1>9
    <2> QED BY <1>1, <2>1, <2>2, <2>3, DetectFound DEF DetectBackend
  <1>12. s = [backend |-> b, launch_tokens |-> launch, positional |-> s.positional,
              fields |-> s.fields, unknown_tokens |-> s.unknown_tokens]
    BY <1>1 DEF Settings, b, launch
  <1>13. CASE s.positional
    <2>1. Len(model) = 1 /\ rest[1] = path[1] /\ 1 \in 1 .. Len(rest)
      <3>1. Len(model) = 1 /\ model[1] = path[1] BY <1>6, <1>13
      <3> QED BY <1>8, <3>1
    <2>2. all[n + 1] = path[1] /\ all[n] = Token("serve") BY <1>2, <1>9, <1>13, <2>1
    <2>3. Serves(all, n) BY <1>6, <1>13, <2>2 DEF Serves
    <2>4. \A i \in 1 .. n - 1 : ~Serves(all, i)
      <3>1. SUFFICES ASSUME NEW i \in 1 .. n - 1 PROVE ~Serves(all, i) OBVIOUS
      <3>2. all[i] = launch[i] /\ all[i + 1] = launch[i + 1] BY <1>9
      <3>3. ~Serves(launch, i) BY <1>2, <1>13
      <3> QED BY <3>2, <3>3 DEF Serves
    <2>5. n \in 1 .. Len(all) - 1 BY <1>8, <1>9, <2>1
    <2>6. PositionalModel(all) = n + 1 BY <1>9, <2>3, <2>4, <2>5, PositionalFound
    <2>7. SubSeq(all, 1, n) = launch
      <3>1. SubSeq(launch \o rest, 1, Len(launch)) = launch BY <1>2, <1>8, ConcatParts
      <3> QED BY <1>3, <3>1
    <2>8. SubSeq(all, n + 2, Len(all)) = tail
      <3> DEFINE front == Cat(launch, model)
      <3>1. all = Cat(front, tail)
        <4>1. Cat(Cat(launch, model), tail) = Cat(launch, Cat(model, tail))
          BY <1>2, <1>8, CatLaws
        <4> QED BY <1>3, <4>1, Zenon DEF Cat, rest
      <3>2. front \in Seq(Tokens) /\ Len(front) = n + 1
        <4>1. launch \o model \in Seq(Tokens) /\ Len(launch \o model) = Len(launch) + Len(model)
          BY <1>2, <1>8, ConcatTokens
        <4> QED BY <2>1, <4>1 DEF Cat
      <3> HIDE DEF front
      <3>3. SubSeq(front \o tail, Len(front) + 1, Len(front \o tail)) = tail
        BY <1>8, <3>2, ConcatParts
      <3>4. all = front \o tail /\ Len(front) + 1 = n + 2 BY <1>9, <3>1, <3>2 DEF Cat
      <3> QED BY <3>3, <3>4
    <2>9. ReadAll(Defaults(b, <<all[n + 1]>>), tail, Flags(b)) =
             [fields |-> s.fields, unknown |-> s.unknown_tokens, wants |-> <<>>, ok |-> TRUE]
      <3>1. <<all[n + 1]>> = path BY <1>3, <2>2, Zenon
      <3>2. ReadAll(Defaults(s.backend, s.fields["model_path"]), Rest(s), Flags(s.backend)) =
               [fields |-> s.fields, unknown |-> s.unknown_tokens,
                wants |-> <<>>, ok |-> TRUE]
        BY <1>13, ReadBack
      <3> QED BY <3>1, <3>2, Zenon DEF b, path, tail
    <2>10. /\ n + 1 # 0 /\ n + 1 - 1 = n /\ n + 1 + 1 = n + 2 /\ n + 2 # 0 /\ all # <<>>
      BY <1>8, <1>9
    <2>11. Decode(all) = <<[backend |-> b, launch_tokens |-> launch,
                            positional |-> n + 1 # 0, fields |-> s.fields,
                            unknown_tokens |-> s.unknown_tokens]>>
      <3> DEFINE positional == n + 1
                 first == n + 2
                 fields == s.fields
                 unknown == s.unknown_tokens
      <3>1. b = DetectBackend(all) BY <1>11
      <3>2. positional = (IF b = "vllm" THEN PositionalModel(all) ELSE 0) BY <1>2, <1>13, <2>6
      <3>3. first = (IF positional # 0 THEN positional + 1
                     ELSE FirstKnownFlag(all, FlagTexts(b)))
        BY <2>10
      <3>4. launch = SubSeq(all, 1, IF positional # 0 THEN positional - 1 ELSE first - 1)
        BY <2>7, <2>10
      <3>5. <<all[n + 1]>> = (IF positional # 0 THEN <<all[positional]>> ELSE <<>>) BY <2>10
      <3>6. ReadAll(Defaults(b, <<all[n + 1]>>), SubSeq(all, first, Len(all)), Flags(b)) =
               [fields |-> fields, unknown |-> unknown, wants |-> <<>>, ok |-> TRUE]
        BY <2>8, <2>9
      <3>7. fields["model_path"] \notin {<<>>, <<Token("")>>} BY <1>5 DEF path
      <3>8. all # <<>> /\ first # 0 /\ launch # <<>> BY <1>2, <2>10
      <3> HIDE DEF positional, first, fields, unknown
      <3>9. Decode(all) = <<[backend |-> b, launch_tokens |-> launch,
                             positional |-> positional # 0, fields |-> fields,
                             unknown_tokens |-> unknown]>>
        <4>1. Cuts(all, b, positional, first, launch, <<all[n + 1]>>)
          BY <3>1, <3>2, <3>3, <3>4, <3>5, <3>8, Zenon DEF Cuts
        <4>2. EndsWith(all, b, first, <<all[n + 1]>>, fields, unknown)
          BY <3>6, <3>7, Zenon DEF EndsWith
        <4> QED BY <4>1, <4>2, DecodeIs
      <3> QED BY <3>9 DEF positional, fields, unknown
    <2> QED BY <1>13, <1>12, <2>10, <2>11 DEF b, launch, all
  <1>14. CASE ~s.positional
    <2> DEFINE flag == Token(ModelFlag(b))
    <2>1. Len(model) = 2 /\ model[1] = flag BY <1>7, <1>14
    <2>2. all[n + 1] = flag
      <3>1. rest[1] = flag /\ 1 \in 1 .. Len(rest) BY <1>8, <2>1
      <3> QED BY <1>9, <3>1
    <2>3. flag.head \in FlagTexts(b) /\ BeginsWithDash(flag)
      <3>1. Row(ModelFlag(b), "model_path", "str").flag = ModelFlag(b) BY DEF Row
      <3>2. ModelFlag(b) \in FlagTexts(b) BY <1>1, <3>1, FlagShape
      <3>3. flag.head = ModelFlag(b) BY DEF Token
      <3> QED BY <1>1, <3>2, <3>3, FlagsCompatible
    <2> HIDE DEF flag
    <2>4. FirstKnownFlag(all, FlagTexts(b)) = n + 1
      <3>1. n + 1 \in 1 .. Len(all) BY <1>8, <1>9
      <3>2. \A i \in 1 .. n : all[i].head \notin FlagTexts(b)
        <4>1. \A i \in 1 .. n : launch[i] \in ToSet(launch) BY <1>2 DEF ToSet
        <4> QED BY <1>2, <1>9, <1>14, <4>1
      <3>3. (n + 1) - 1 = n BY <1>9
      <3> QED BY <1>9, <2>2, <2>3, <3>1, <3>2, <3>3, FirstFound
    <2>5. b = "vllm" => PositionalModel(all) = 0
      <3>1. SUFFICES ASSUME b = "vllm", PositionalModel(all) # 0 PROVE FALSE OBVIOUS
      <3>2. PICK i \in 1 .. Len(all) - 1 : Serves(all, i)
        <4>1. LET k == PositionalModel(all)
              IN  k \in 2 .. Len(all) /\ Serves(all, k - 1)
          BY <1>9, <3>1, PositionalIs
        <4>2. PositionalModel(all) - 1 \in 1 .. Len(all) - 1 BY <1>9, <4>1
        <4> QED BY <4>1, <4>2
      <3>3. CASE i \in 1 .. n - 1
        <4>1. all[i] = launch[i] /\ all[i + 1] = launch[i + 1] BY <1>9, <3>3
        <4>2. ~Serves(launch, i) BY <1>2, <3>1, <3>3
        <4> QED BY <3>2, <4>1, <4>2 DEF Serves
      <3>4. CASE i = n BY <2>2, <2>3, <3>2, <3>4 DEF Serves
      <3>5. CASE i \in n + 1 .. Len(all)
        <4>1. i - n \in 1 .. Len(rest) /\ n + (i - n) = i BY <1>8, <1>9, <3>5
        <4>2. rest[i - n] \in ToSet(rest)
          <5>1. rest \in Seq(Tokens) BY <1>8
          <5>2. \A k \in 1 .. Len(rest) : rest[k] \in ToSet(rest) BY <5>1 DEF ToSet
          <5> QED BY <4>1, <5>2
        <4>3. all[i] \in Behind(s) BY <1>9, <1>10, <4>1, <4>2
        <4> QED BY <1>4, <3>2, <4>3 DEF Serves
      <3> QED BY <1>9, <3>2, <3>3, <3>4, <3>5
    <2>6. SubSeq(all, 1, n) = launch /\ SubSeq(all, n + 1, Len(all)) = rest
      <3>1. launch \in Seq(Tokens) /\ rest \in Seq(Tokens) BY <1>2, <1>8
      <3>2. /\ SubSeq(launch \o rest, 1, Len(launch)) = launch
            /\ SubSeq(launch \o rest, Len(launch) + 1, Len(launch \o rest)) = rest
        BY <3>1, ConcatParts
      <3> QED BY <1>3, <3>2
    <2>7. ReadAll(Defaults(b, <<>>), rest, Flags(b)) =
             [fields |-> s.fields, unknown |-> s.unknown_tokens, wants |-> <<>>, ok |-> TRUE]
      <3>1. ReadAll(Defaults(s.backend, <<>>), Model(s) \o Rest(s), Flags(s.backend)) =
               [fields |-> s.fields, unknown |-> s.unknown_tokens,
                wants |-> <<>>, ok |-> TRUE]
        BY <1>14, ReadBack
      <3> QED BY <3>1, Zenon DEF b, rest, model, tail
    <2>8. n + 1 # 0 /\ n + 1 - 1 = n /\ all # <<>> BY <1>8, <1>9
    <2>9. Decode(all) = <<[backend |-> b, launch_tokens |-> launch,
                           positional |-> 0 # 0, fields |-> s.fields,
                           unknown_tokens |-> s.unknown_tokens]>>
      <3> DEFINE positional == 0
                 first == n + 1
                 path0 == <<>>
                 fields == s.fields
                 unknown == s.unknown_tokens
      <3>1. b = DetectBackend(all) BY <1>11
      <3>2. positional = (IF b = "vllm" THEN PositionalModel(all) ELSE 0) BY <2>5
      <3>3. first = (IF positional # 0 THEN positional + 1
                     ELSE FirstKnownFlag(all, FlagTexts(b)))
        BY <2>4
      <3>4. launch = SubSeq(all, 1, IF positional # 0 THEN positional - 1 ELSE first - 1)
        BY <2>6, <2>8
      <3>5. path0 = (IF positional # 0 THEN <<all[positional]>> ELSE <<>>) OBVIOUS
      <3>6. ReadAll(Defaults(b, path0), SubSeq(all, first, Len(all)), Flags(b)) =
               [fields |-> fields, unknown |-> unknown, wants |-> <<>>, ok |-> TRUE]
        BY <2>6, <2>7
      <3>7. fields["model_path"] \notin {<<>>, <<Token("")>>} BY <1>5 DEF path
      <3>8. all # <<>> /\ first # 0 /\ launch # <<>> BY <1>2, <2>8
      <3> HIDE DEF positional, first, path0, fields, unknown
      <3>9. Decode(all) = <<[backend |-> b, launch_tokens |-> launch,
                             positional |-> positional # 0, fields |-> fields,
                             unknown_tokens |-> unknown]>>
        <4>1. Cuts(all, b, positional, first, launch, path0)
          BY <3>1, <3>2, <3>3, <3>4, <3>5, <3>8, Zenon DEF Cuts
        <4>2. EndsWith(all, b, first, path0, fields, unknown)
          BY <3>6, <3>7, Zenon DEF EndsWith
        <4> QED BY <4>1, <4>2, DecodeIs
      <3> QED BY <3>9 DEF positional, fields, unknown
    <2> QED BY <1>12, <1>14, <2>9, <1>2, Zenon DEF all
  <1> QED BY <1>2, <1>13, <1>14

\* The fold by which the editor retypes the unknown tokens.
AddWords(all, token, ignored) == all \o Retyped(token)

WordsFold == INSTANCE FoldLemmas WITH Op <- AddWords

RetypedAll(tokens) == FoldLeft(LAMBDA all, t : all \o Retyped(t), <<>>, tokens)

\* The arguments are retyped one by one, in a fold.
LEMMA RetypedIs ==
    ASSUME NEW tokens
    PROVE  RetypedAll(tokens) = WordsFold!Fold(<<>>, tokens, 0)
  BY Zenon DEF RetypedAll, AddWords, WordsFold!Fold, FoldLeft, MapThenFoldSet,
               WordsFold!FoldLeft, WordsFold!MapThenFoldSet, Max, WordsFold!Max

\* Retyped arguments are tokens; those without white space stay as they are.
LEMMA RetypedKeeps ==
    ASSUME NEW tokens \in Seq(Tokens)
    PROVE  /\ RetypedAll(tokens) \in Seq(Tokens)
           /\ (\A t \in ToSet(tokens) : t.head \notin Blank /\ t \notin DOMAIN Words)
              => RetypedAll(tokens) = tokens
  <1>1. RetypedAll(tokens) \in Seq(Tokens)
    <2>1. ASSUME NEW all \in Seq(Tokens), NEW t \in Tokens
          PROVE  AddWords(all, t, 0) \in Seq(Tokens)
      <3>1. \A token \in DOMAIN Words : Words[token] \in Seq(Tokens) BY CodecConstants
      <3>2. Retyped(t) \in Seq(Tokens)
        <4>1. CASE t.head \in Blank BY <4>1 DEF Retyped
        <4>2. CASE t.head \notin Blank /\ t \in DOMAIN Words BY <3>1, <4>2 DEF Retyped
        <4>3. CASE t.head \notin Blank /\ t \notin DOMAIN Words
          <5>1. Retyped(t) = <<t>> BY <4>3 DEF Retyped
          <5> QED BY <5>1
        <4> QED BY <4>1, <4>2, <4>3
      <3> DEFINE more == Retyped(t)
      <3>3. more \in Seq(Tokens) BY <3>2
      <3> HIDE DEF more
      <3>4. all \o more \in Seq(Tokens) BY <3>3
      <3> QED BY <3>4 DEF AddWords, more
    <2>2. <<>> \in Seq(Tokens) OBVIOUS
    <2>3. WordsFold!Fold(<<>>, tokens, 0) \in Seq(Tokens)
      BY <2>1, <2>2, WordsFold!FoldKeeps, Zenon
    <2> QED BY <2>3, RetypedIs
  <1>2. ASSUME \A t \in ToSet(tokens) : t.head \notin Blank /\ t \notin DOMAIN Words
        PROVE  RetypedAll(tokens) = tokens
    <2> DEFINE h == [i \in 0 .. Len(tokens) |-> SubSeq(tokens, 1, i)]
    <2>1. Len(tokens) \in Nat OBVIOUS
    <2>2. h[0] = <<>> /\ h[Len(tokens)] = tokens
      <3>1. SubSeq(tokens, 1, 0) = <<>> /\ SubSeq(tokens, 1, Len(tokens)) = tokens OBVIOUS
      <3> QED BY <2>1, <3>1
    <2>3. ASSUME NEW i \in 1 .. Len(tokens) PROVE h[i] = AddWords(h[i - 1], tokens[i], 0)
      <3>1. tokens[i] \in ToSet(tokens) /\ tokens[i] \in Tokens BY DEF ToSet
      <3>2. Retyped(tokens[i]) = <<tokens[i]>> BY <1>2, <3>1 DEF Retyped
      <3>3. SubSeq(tokens, 1, i - 1) \o <<tokens[i]>> = SubSeq(tokens, 1, i) BY <3>1
      <3>4. h[i] = SubSeq(tokens, 1, i) /\ h[i - 1] = SubSeq(tokens, 1, i - 1) BY <2>1
      <3> QED BY <3>2, <3>3, <3>4, Zenon DEF AddWords
    <2> HIDE DEF h
    <2>4. WordsFold!IsRun(h, <<>>, tokens, 0) BY <2>2, <2>3, Zenon DEF WordsFold!IsRun
    <2>5. WordsFold!Fold(<<>>, tokens, 0) = h[Len(tokens)]
      BY <2>4, WordsFold!FoldIs, Zenon
    <2> QED BY <2>2, <2>5, RetypedIs
  <1> QED BY <1>1, <1>2

\* A field is of the kind that its flags have.
LEMMA FieldKindIs ==
    ASSUME NEW b \in AllBackends, NEW f \in Fields(b)
    PROVE  /\ \A row \in Flags(b) : row.field = f => row.kind = FieldKind(b, f)
           /\ FieldKind(b, f) = "choice" => f = "flash_attn"
           /\ FieldKind(b, f) = "json" => f = "speculative"
           /\ f = "context_length" => FieldKind(b, f) = "int"
  <1>1. PICK r \in Flags(b) : r.field = f BY Zenon DEF Fields
  <1>2. \A row \in Flags(b) : row.field = f => row.kind = FieldKind(b, f)
    <2> DEFINE chosen == CHOOSE row \in Flags(b) : row.field = f
    <2>1. chosen \in Flags(b) /\ chosen.field = f BY <1>1
    <2> HIDE DEF chosen
    <2>2. \A row \in Flags(b) : row.field = f => row.kind = chosen.kind BY <2>1, KindIsOne
    <2> QED BY <2>2 DEF FieldKind, chosen
  <1>3. /\ r.kind = "choice" => r.field = "flash_attn"
        /\ r.kind = "json" => r.field = "speculative"
        /\ r.field = "context_length" => r.kind = "int"
    BY DEF AllBackends, Flags, Aliases, Written, Row, ToSet
  <1>4. r.kind = FieldKind(b, f) BY <1>1, <1>2
  <1> QED BY <1>1, <1>2, <1>3, <1>4

\* What is left of a field after the form and the encoder is settled, and is what
\* was there unless the form filled it in.
LEMMA SentSettled ==
    ASSUME NEW b \in AllBackends, NEW f \in Fields(b), NEW v \in Values, Settled(b, f, v),
           f \in Always \cup {"model_path"} => v # <<>>,
           NEW w, w = WithoutBlank(f, Sent(FieldKind(b, f), v))
    PROVE  /\ w \in Values /\ Settled(b, f, w) /\ (f \in Always => w # <<>>)
           /\ \/ w = WithoutBlank(f, v)
              \/ f = "flash_attn" /\ v = <<>>
              \/ f = "speculative" /\ v # <<>>
  <1> DEFINE kind == FieldKind(b, f)
             g == Sent(kind, v)
  <1>1. /\ \A row \in Flags(b) : row.field = f => row.kind = kind
        /\ kind = "choice" => f = "flash_attn"
        /\ kind = "json" => f = "speculative"
        /\ f = "context_length" => kind = "int"
    BY FieldKindIs
  <1>2. PICK r \in Flags(b) : r.field = f BY Zenon DEF Fields
  <1>3. r.kind = kind BY <1>1, <1>2
  <1>4. \A text \in STRING : /\ Token(text) \in Tokens /\ Token(text).head = text
                             /\ <<Token(text)>> \in Values /\ <<Token(text)>> # <<>>
                             /\ <<Token(text)>>[1] = Token(text)
    <2>1. \A text \in STRING : Token(text) \in Tokens /\ Token(text).head = text
      BY TextToken
    <2> HIDE DEF Token
    <2> QED BY <2>1 DEF Values
  <1>5. "" \in STRING /\ "auto" \in STRING BY CodecConstants
  <1>6. v # <<>> => /\ v[1] \in Tokens /\ v = <<v[1]>>
                    /\ kind # "bool" => Convert(kind, v[1]) = v
    BY <1>2, <1>3 DEF Values, Settled
  <1>7. \A x : (x # <<>> /\ kind # "bool" => Convert(kind, x[1]) = x)
               /\ kind # "bool" => Settled(b, f, x)
    BY <1>1 DEF Settled
  <1> HIDE DEF kind
  <1>8. CASE kind = "str" /\ v = <<>>
    <2>1. g = <<Token("")>> BY <1>8 DEF Sent
    <2>2. Convert(kind, Token("")) = <<Token("")>> BY <1>8 DEF Convert
    <2>3. Settled(b, f, g) /\ g \in Values
      <3>1. Convert(kind, <<Token("")>>[1]) = <<Token("")>> BY <1>4, <1>5, <2>2
      <3> HIDE DEF Token, g
      <3> QED BY <1>4, <1>5, <1>7, <1>8, <2>1, <3>1
    <2>4. f \notin Always \cup {"model_path"} BY <1>8
    <2>5. w = <<>>
      <3>1. <<Token("")>> # <<>> /\ <<Token("")>>[1].head \in Blank
        BY <1>4, <1>5 DEF Blank
      <3>2. f \notin {"model_path", "port_token"} BY <2>4 DEF Always
      <3> HIDE DEF Token
      <3> QED BY <2>1, <3>1, <3>2, Zenon DEF WithoutBlank, kind
    <2>6. WithoutBlank(f, v) = <<>> BY <1>8, Zenon DEF WithoutBlank
    <2> QED BY <2>4, <2>5, <2>6 DEF Values, Settled
  <1>9. CASE kind = "choice" /\ v = <<>>
    <2>1. g = <<Token("auto")>> BY <1>9 DEF Sent
    <2>2. Convert(kind, Token("auto")) = <<Token("auto")>>
      BY <1>4, <1>5, <1>9 DEF Convert
    <2>3. Settled(b, f, g) /\ g \in Values
      <3>1. Convert(kind, <<Token("auto")>>[1]) = <<Token("auto")>> BY <1>4, <1>5, <2>2
      <3> HIDE DEF Token, g
      <3> QED BY <1>4, <1>5, <1>7, <1>9, <2>1, <3>1
    <2>4. w = g \/ w = <<>> BY Zenon DEF WithoutBlank, kind
    <2> HIDE DEF g
    <2> QED BY <1>1, <1>9, <2>3, <2>4 DEF Values, Settled, Always
  <1>10. CASE kind = "json" /\ v # <<>>
    <2> DEFINE h == v[1].head
    <2>1. h \in DOMAIN Objects /\ v = <<Token(Objects[h])>>
      BY <1>6, <1>10 DEF Convert
    <2>2. Objects[h] \in STRING /\ Objects[h] \in DOMAIN Objects
          /\ Refilled[Objects[h]] \in
                {<<>>} \cup {<<Token(Objects[other])>> : other \in DOMAIN Objects}
      BY <2>1, CodecConstants
    <2>3. v[1] = Token(Objects[h]) /\ h = Objects[h]
      <3>1. v[1] = Token(Objects[h])
        <4> HIDE DEF h, Token
        <4> QED BY <1>4, <2>1, <2>2
      <3>2. Token(Objects[h]).head = Objects[h] BY <2>2, TextToken
      <3> QED BY <3>1, <3>2
    <2>4. g = Refilled[Objects[h]] BY <1>10, <2>3 DEF Sent
    <2>5. Settled(b, f, g) /\ g \in Values
      <3>1. CASE g = <<>> BY <3>1 DEF Settled, Values
      <3>2. ASSUME NEW other \in DOMAIN Objects, g = <<Token(Objects[other])>>
            PROVE  Settled(b, f, g) /\ g \in Values
        <4>1. /\ Objects[other] \in STRING /\ Objects[other] \in DOMAIN Objects
              /\ Objects[Objects[other]] = Objects[other]
          BY CodecConstants
        <4>2. /\ g \in Values /\ g # <<>> /\ g[1] = Token(Objects[other])
              /\ g[1].head = Objects[other]
          <5> HIDE DEF Token, g
          <5> QED BY <1>4, <3>2, <4>1
        <4>3. Convert("json", g[1]) = g BY <3>2, <4>1, <4>2 DEF Convert
        <4> HIDE DEF g
        <4> QED BY <1>7, <1>10, <4>2, <4>3
      <3> HIDE DEF g
      <3> QED BY <2>2, <2>4, <3>1, <3>2
    <2>6. w = g \/ w = <<>> BY Zenon DEF WithoutBlank, kind
    <2> HIDE DEF g
    <2> QED BY <1>1, <1>10, <2>5, <2>6 DEF Values, Settled, Always
  <1>11. CASE ~(kind \in {"str", "choice"} /\ v = <<>>) /\ ~(kind = "json" /\ v # <<>>)
    <2>1. g = v BY <1>11 DEF Sent
    <2>2. w = WithoutBlank(f, v) BY <2>1, Zenon DEF kind
    <2>3. w = v \/ (/\ w = <<>> /\ f \notin {"model_path", "port_token"}
                    /\ v # <<>> /\ v[1].head \in Blank)
      BY <2>2, Zenon DEF WithoutBlank
    <2>4. f = "context_length" => w # <<>>
      <3>1. SUFFICES ASSUME f = "context_length", w = <<>> PROVE FALSE OBVIOUS
      <3>2. v # <<>> /\ kind = "int" /\ v[1].head \in Blank BY <1>1, <2>3, <3>1 DEF Always
      <3>3. v[1].head \in DOMAIN Numbers BY <1>6, <3>2 DEF Convert
      <3> QED BY <3>2, <3>3, CodecConstants
    <2> QED BY <2>2, <2>3, <2>4 DEF Values, Settled, Always
  <1> QED BY <1>8, <1>9, <1>10, <1>11

\* The encoder writes no blank text, so the command says what is left of the form.
LEMMA BlankUnwritten ==
    ASSUME NEW b \in AllBackends, NEW fields, NEW left, DOMAIN fields = Fields(b),
           left = [f \in DOMAIN fields |-> WithoutBlank(f, fields[f])]
    PROVE  WrittenTokens(b, left) = WrittenTokens(b, fields)
  <1> DEFINE W == Written(b)
  <1>1. W \in Seq(Flags(b)) /\ Len(W) \in Nat BY FlagShape
  <1>2. \A i \in 1 .. Len(W) : W[i].field \in Fields(b)
    <2>1. \A i \in 1 .. Len(W) : W[i] \in Flags(b)
      <3> HIDE DEF W
      <3> QED BY <1>1
    <2> HIDE DEF W
    <2> QED BY <2>1, FlagShape
  <1>3. \A T : \A w \in Seq(T) : \E run : AddFold!IsRun(run, <<>>, w, fields)
                 /\ AddFold!Fold(<<>>, w, fields) = run[Len(w)]
    BY AddFold!FoldRuns, Zenon
  <1> HIDE DEF W
  <1>4. PICK run : AddFold!IsRun(run, <<>>, W, fields)
                   /\ AddFold!Fold(<<>>, W, fields) = run[Len(W)]
    BY <1>1, <1>3, Zenon
  <1>5. ASSUME NEW i \in 1 .. Len(W)
        PROVE  AddFlag(run[i - 1], W[i], left) = AddFlag(run[i - 1], W[i], fields)
    <2>1. left[W[i].field] = WithoutBlank(W[i].field, fields[W[i].field]) BY <1>2
    <2>2. \A v : AppendFlag(W[i], WithoutBlank(W[i].field, v)) = AppendFlag(W[i], v)
      BY Zenon DEF AppendFlag, WithoutBlank
    <2> QED BY <2>1, <2>2, Zenon DEF AddFlag
  <1>6. AddFold!IsRun(run, <<>>, W, left) BY <1>4, <1>5, Zenon DEF AddFold!IsRun
  <1>7. \A T : \A w \in Seq(T) : \A h : AddFold!IsRun(h, <<>>, w, left) =>
           AddFold!Fold(<<>>, w, left) = h[Len(w)]
    BY AddFold!FoldIs, Zenon
  <1>8. AddFold!Fold(<<>>, W, left) = run[Len(W)] BY <1>1, <1>6, <1>7, Zenon
  <1> QED BY <1>4, <1>8, WrittenIs, Zenon DEF W

\* What a form with another model leaves of the settings is well formed, and says
\* of every field what the command said, unless the form filled it in.
LEMMA ShownIs ==
    ASSUME NEW s, Decoded(s), NEW path \in NewPaths, NEW sent,
           sent = [Payload(s) EXCEPT !.fields["model_path"] = <<Token(path)>>]
    PROVE  /\ Decoded(Shown(sent)) /\ Encode(Shown(sent)) = Encode(sent)
           /\ Immutable(Shown(sent)) = Immutable(s)
           /\ Shown(sent).unknown_tokens = RetypedAll(s.unknown_tokens)
           /\ Shown(sent).fields["model_path"] = <<Token(path)>>
           /\ \A f \in DOMAIN s.fields \ {"model_path"} :
                 \/ Shown(sent).fields[f] = WithoutBlank(f, s.fields[f])
                 \/ f = "flash_attn" /\ s.fields[f] = <<>>
                 \/ f = "speculative" /\ s.fields[f] # <<>>
  <1> DEFINE b == s.backend
             launch == s.launch_tokens
             positional == s.positional
             before == s.fields
             unknown == RetypedAll(s.unknown_tokens)
             model == <<Token(path)>>
             formed == [f \in DOMAIN before |-> Sent(FieldKind(b, f), before[f])]
             fields == [formed EXCEPT !["model_path"] = model]
             left == [f \in DOMAIN fields |-> WithoutBlank(f, fields[f])]
             Saved(x) == [backend |-> b, launch_tokens |-> launch, positional |-> positional,
                          fields |-> x, unknown_tokens |-> unknown]
  <1>1. b \in AllBackends /\ s \in Settings(b) BY DEF Decoded
  <1>2. /\ before \in [Fields(b) -> Values] /\ s.unknown_tokens \in Seq(Tokens)
        /\ DOMAIN before = Fields(b) /\ launch \in Seq(Tokens) /\ positional \in BOOLEAN
        /\ s = [backend |-> b, launch_tokens |-> launch, positional |-> positional,
                fields |-> before, unknown_tokens |-> s.unknown_tokens]
    BY <1>1 DEF Settings
  <1>3. unknown \in Seq(Tokens) BY <1>2, RetypedKeeps
  <1>4. {"context_length", "port_token", "model_path"} \subseteq Fields(b) BY <1>1, FlagShape
  <1>5. /\ Token(path) \in Tokens /\ model \in Values /\ model[1] = Token(path)
        /\ model # <<>> /\ model # <<Token("")>>
    <2>1. path \in STRING /\ path # "" BY CodecConstants
    <2>2. Token(path) \in Tokens /\ Token(path).head = path BY <2>1, TextToken
    <2>3. Token("").head = "" BY DEF Token
    <2> HIDE DEF Token
    <2> QED BY <2>1, <2>2, <2>3 DEF Values
  <1>6. sent = Saved(fields)
    <2>1. Payload(s) = [s EXCEPT !.unknown_tokens = unknown, !.fields = formed]
      BY Zenon DEF Payload, RetypedAll
    <2> DEFINE kept == s.unknown_tokens
    <2>2. s = [backend |-> b, launch_tokens |-> launch, positional |-> positional,
               fields |-> before, unknown_tokens |-> kept]
      BY <1>2
    <2> HIDE DEF b, formed, unknown, launch, positional, before, kept, model
    <2> DEFINE retyped == [s EXCEPT !.unknown_tokens = unknown]
    <2>3. retyped = [backend |-> b, launch_tokens |-> launch, positional |-> positional,
                     fields |-> before, unknown_tokens |-> unknown]
      BY <2>2
    <2>4. Payload(s) = [retyped EXCEPT !.fields = formed] BY <2>1
    <2> HIDE DEF retyped
    <2>5. Payload(s) = Saved(formed) BY <2>3, <2>4
    <2>6. sent = [Payload(s) EXCEPT !.fields["model_path"] = model] BY DEF model
    <2> QED BY <2>5, <2>6
  <1>7. DOMAIN formed = Fields(b) /\ DOMAIN fields = Fields(b) /\ DOMAIN left = Fields(b)
    BY <1>2
  <1>8. /\ fields["model_path"] = model
        /\ \A f \in Fields(b) \ {"model_path"} : fields[f] = Sent(FieldKind(b, f), before[f])
    <2> HIDE DEF model, before
    <2> QED BY <1>2, <1>4, <1>7
  <1>9. left["model_path"] = model
    <2> HIDE DEF model, fields
    <2> QED BY <1>4, <1>7, <1>8 DEF WithoutBlank
  <1>10. ASSUME NEW f \in Fields(b)
         PROVE  /\ left[f] \in Values /\ Settled(b, f, left[f])
                /\ f \in Always => left[f] # <<>>
                /\ f # "model_path" =>
                      \/ left[f] = WithoutBlank(f, before[f])
                      \/ f = "flash_attn" /\ before[f] = <<>>
                      \/ f = "speculative" /\ before[f] # <<>>
    <2>1. CASE f = "model_path"
      <3>1. ASSUME NEW row \in Flags(b), row.field = f PROVE row.kind = "str"
        <4>1. /\ Row(ModelFlag(b), "model_path", "str").field = "model_path"
              /\ Row(ModelFlag(b), "model_path", "str").kind = "str"
          BY DEF Row
        <4>2. Row(ModelFlag(b), "model_path", "str") \in Flags(b) BY <1>1, FlagShape
        <4> QED BY <1>1, <2>1, <3>1, <4>1, <4>2, KindIsOne
      <3>2. Convert("str", model[1]) = model BY <1>5 DEF Convert
      <3>3. Settled(b, f, model) BY <3>1, <3>2 DEF Settled
      <3> HIDE DEF model, left
      <3> QED BY <1>5, <1>9, <2>1, <3>3
    <2>2. CASE f # "model_path"
      <3>1. left[f] = WithoutBlank(f, Sent(FieldKind(b, f), before[f]))
        <4> HIDE DEF fields, before
        <4> QED BY <1>7, <1>8, <2>2
      <3>2. Settled(b, f, before[f]) /\ (f \in Always \cup {"model_path"} => before[f] # <<>>)
        BY <2>2 DEF Decoded
      <3>3. before[f] \in Values BY <1>2
      <3> HIDE DEF left, before
      <3> QED BY <1>1, <2>2, <3>1, <3>2, <3>3, SentSettled
    <2> QED BY <2>1, <2>2
  <1>11. Shown(sent) = Saved(left)
    <2> HIDE DEF b, fields, unknown, launch, positional
    <2>1. Shown(sent) = [sent EXCEPT !.fields = [f \in DOMAIN sent.fields |->
                                                   WithoutBlank(f, sent.fields[f])]]
      BY Zenon DEF Shown
    <2>2. sent.fields = fields BY <1>6
    <2>3. Shown(sent) = [sent EXCEPT !.fields = left] BY <2>1, <2>2, Zenon
    <2> HIDE DEF left
    <2> DEFINE old == Saved(fields)
    <2>4. [old EXCEPT !.fields = left] = Saved(left) OBVIOUS
    <2> HIDE DEF old
    <2>5. sent = old BY <1>6 DEF old
    <2> QED BY <2>3, <2>4, <2>5, Zenon
  <1> DEFINE shown == Shown(sent)
  <1>12. /\ shown.backend = b /\ shown.launch_tokens = launch
         /\ shown.positional = positional /\ shown.fields = left
         /\ shown.unknown_tokens = unknown
         /\ sent.backend = b /\ sent.launch_tokens = launch
         /\ sent.positional = positional /\ sent.fields = fields
         /\ sent.unknown_tokens = unknown
    <2> HIDE DEF b, fields, left, unknown, launch, positional
    <2> QED BY <1>6, <1>11
  <1>13. left \in [Fields(b) -> Values]
    <2> HIDE DEF b
    <2>1. left = [f \in Fields(b) |-> left[f]]
      <3> HIDE DEF fields
      <3> QED BY <1>7
    <2> HIDE DEF left
    <2> QED BY <1>10, <2>1
  <1>14. shown \in Settings(b)
    <2>1. /\ launch \in Seq(Tokens) /\ positional \in BOOLEAN /\ unknown \in Seq(Tokens)
          /\ left \in [Fields(b) -> Values]
      BY <1>2, <1>3, <1>13, Zenon
    <2> HIDE DEF b, left, unknown, launch, positional
    <2>2. Saved(left) \in Settings(b) BY <2>1, Zenon DEF Settings
    <2> QED BY <1>11, <2>2, Zenon
  <1>15. LaunchOnly(shown)
    <2>1. LaunchOnly(s) BY DEF Decoded
    <2> HIDE DEF shown
    <2> QED BY <1>12, <2>1 DEF LaunchOnly
  <1>16. Decoded(shown)
    <2> HIDE DEF shown, left, model
    <2> QED BY <1>1, <1>5, <1>9, <1>10, <1>12, <1>14, <1>15 DEF Decoded
  <1>17. left["port_token"] = before["port_token"] /\ fields["port_token"] = before["port_token"]
    <2>1. before["port_token"] # <<>> BY <1>4 DEF Decoded, Always
    <2>2. /\ Row("--port", "port_token", "str") \in Flags(b)
          /\ Row("--port", "port_token", "str").field = "port_token"
          /\ Row("--port", "port_token", "str").kind = "str"
      BY <1>1, FlagShape DEF Row
    <2>3. FieldKind(b, "port_token") = "str" BY <1>1, <1>4, <2>2, FieldKindIs
    <2>4. fields["port_token"] = before["port_token"]
      <3> HIDE DEF before, fields
      <3> QED BY <1>4, <1>8, <2>1, <2>3 DEF Sent
    <2>5. left["port_token"] = WithoutBlank("port_token", fields["port_token"])
      <3> HIDE DEF fields
      <3> QED BY <1>4, <1>7
    <2> HIDE DEF left, fields, before
    <2> QED BY <2>4, <2>5 DEF WithoutBlank
  <1>18. Immutable(shown) = Immutable(s)
    <2> HIDE DEF shown, left
    <2> QED BY <1>12, <1>17 DEF Immutable
  <1>19. Encode(shown) = Encode(sent)
    <2>1. WrittenTokens(b, left) = WrittenTokens(b, fields)
      <3> HIDE DEF b, fields
      <3> QED BY <1>1, <1>7, BlankUnwritten
    <2>2. \A x : Encode(x) =
             x.launch_tokens
             \o (IF x.backend = "vllm" /\ x.positional THEN <<>>
                 ELSE <<Token(ModelFlag(x.backend))>>)
             \o x.fields["model_path"]
             \o <<Token("--port")>> \o x.fields["port_token"]
             \o WrittenTokens(x.backend, x.fields)
             \o x.unknown_tokens
      BY Zenon DEF Encode, WrittenTokens
    <2> HIDE DEF shown, left, fields, model, b, launch, positional, unknown, before
    <2> QED BY <1>8, <1>9, <1>12, <1>17, <2>1, <2>2, Zenon
  <1> HIDE DEF left, fields, model, unknown, shown
  <1>20. \A f \in DOMAIN before \ {"model_path"} :
                 \/ shown.fields[f] = WithoutBlank(f, before[f])
                 \/ f = "flash_attn" /\ before[f] = <<>>
                 \/ f = "speculative" /\ before[f] # <<>>
    BY <1>2, <1>10, <1>12
  <1> QED BY <1>9, <1>12, <1>16, <1>18, <1>19, <1>20, Zenon DEF unknown, model, shown

\* Whatever is written into the configuration is a sequence of tokens.
LEMMA CodecTypeCorrect == CodecSpec => []CodecTypeOK
  <1>1. MaxPieces \in Nat /\ Launchers \cup Pieces \subseteq Seq(Tokens) BY CodecConstants
  <1>2. CodecInit => CodecTypeOK BY <1>1 DEF CodecInit, CodecTypeOK
  <1>3. CodecTypeOK /\ [CodecNext]_codecVars => CodecTypeOK'
    <2>1. ASSUME CodecTypeOK, Write PROVE CodecTypeOK'
      <3>1. PICK piece \in Pieces : line' = line \o piece BY <2>1 DEF Write
      <3>2. piece \in Seq(Tokens) /\ line \in Seq(Tokens)
        BY <2>1, <1>1 DEF CodecTypeOK
      <3>3. line \o piece \in Seq(Tokens) BY <3>2
      <3>4. pieces' \in 0 .. MaxPieces BY <2>1, <1>1 DEF Write, CodecTypeOK
      <3> QED BY <3>1, <3>3, <3>4 DEF CodecTypeOK
    <2>2. ASSUME CodecTypeOK, UNCHANGED codecVars PROVE CodecTypeOK'
      BY <2>2 DEF CodecTypeOK, codecVars
    <2> QED BY <2>1, <2>2 DEF CodecNext
  <1> QED BY <1>2, <1>3, PTL DEF CodecSpec

\* decode, encode and decode (command_codec.py:101, 192): for any launcher, any
\* tokens and any number of them, a command whose settings can be said decodes to
\* the same settings after it was encoded.
THEOREM CodecStableHolds == CodecSpec => []CodecStable
  <1>1. CodecTypeOK => CodecStable
    <2>1. SUFFICES ASSUME CodecTypeOK, NEW s \in ToSet(Decode(line)), Representable(s)
          PROVE  Decode(Encode(s)) = <<s>>
      BY Zenon DEF CodecStable
    <2>2. Decoded(s) BY <2>1, DecodeGives DEF CodecTypeOK
    <2> QED BY <2>1, <2>2, EncodeDecode
  <1> QED BY <1>1, CodecTypeCorrect, PTL

\* Saving the form (web/app.js, model_service.py _ensure_immutable_command_fields):
\* for any command and any model path, what is stored has that path, the same
\* launcher and port, the value of every field that the form did not fill in, and
\* the same unknown arguments in their order, if none has white space.
THEOREM SavedAsShownHolds == CodecSpec => []SavedAsShown
  <1>1. CodecTypeOK => SavedAsShown
    <2> SUFFICES ASSUME CodecTypeOK, NEW s \in ToSet(Decode(line)), NEW path \in NewPaths
        PROVE  LET sent == [Payload(s) EXCEPT !.fields["model_path"] = <<Token(path)>>]
                   again == Decode(Encode(sent))
               IN  Representable(Shown(sent))
                   => /\ Len(again) = 1
                      /\ Immutable(again[1]) = Immutable(s)
                      /\ again[1].fields["model_path"] = <<Token(path)>>
                      /\ \A f \in DOMAIN s.fields \ {"model_path"} :
                            \/ again[1].fields[f] = WithoutBlank(f, s.fields[f])
                            \/ f = "flash_attn" /\ s.fields[f] = <<>>
                            \/ f = "speculative" /\ s.fields[f] # <<>>
                      /\ (\A t \in ToSet(s.unknown_tokens) :
                            t.head \notin Blank /\ t \notin DOMAIN Words)
                         => again[1].unknown_tokens = s.unknown_tokens
      BY Zenon DEF SavedAsShown
    <2> DEFINE sent == [Payload(s) EXCEPT !.fields["model_path"] = <<Token(path)>>]
               shown == Shown(sent)
               again == Decode(Encode(sent))
    <2>1. Decoded(s) BY DecodeGives DEF CodecTypeOK
    <2>2. s.unknown_tokens \in Seq(Tokens) BY <2>1 DEF Decoded, Settings
    <2>3. /\ Decoded(shown) /\ Encode(shown) = Encode(sent)
          /\ Immutable(shown) = Immutable(s)
          /\ shown.unknown_tokens = RetypedAll(s.unknown_tokens)
          /\ shown.fields["model_path"] = <<Token(path)>>
          /\ \A f \in DOMAIN s.fields \ {"model_path"} :
                \/ shown.fields[f] = WithoutBlank(f, s.fields[f])
                \/ f = "flash_attn" /\ s.fields[f] = <<>>
                \/ f = "speculative" /\ s.fields[f] # <<>>
      BY <2>1, ShownIs, Zenon
    <2> HIDE DEF sent
    <2>4. Representable(shown) => again = <<shown>>
      BY <2>3, EncodeDecode, Zenon
    <2> HIDE DEF shown, again
    <2>5. again = <<shown>> => again[1] = shown /\ Len(again) = 1 OBVIOUS
    <2>6. (\A t \in ToSet(s.unknown_tokens) : t.head \notin Blank /\ t \notin DOMAIN Words)
          => RetypedAll(s.unknown_tokens) = s.unknown_tokens
      BY <2>2, RetypedKeeps
    <2> QED BY <2>3, <2>4, <2>5, <2>6, Zenon DEF sent, shown, again
  <1> QED BY <1>1, CodecTypeCorrect, PTL

=============================================================================

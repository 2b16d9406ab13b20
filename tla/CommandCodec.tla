---------------------------- MODULE CommandCodec ----------------------------
(***************************************************************************)
(* CommandCodec: the launch command of a model as structured settings, and *)
(* back, with the editor form of the browser in between.                   *)
(* A command is the sequence of tokens that shlex.split gives; encode      *)
(* quotes each token so that splitting gives it back.  A token is          *)
(* [head, inline]: "--x=v" has the head "--x" and the inline value <<"v">>. *)
(* Of the tables of flags one flag of each kind and each use stands for    *)
(* the others of its kind; the order of the encoder is kept.               *)
(* A setting is <<>> for None or False, else <<token>>.                    *)
(***************************************************************************)
EXTENDS Naturals, Sequences, SequencesExt, FiniteSets

CONSTANTS
    Launchers,    \* how a command may begin
    Pieces,       \* what may follow, a few tokens at a time
    MaxPieces,    \* bound: pieces of a command
    NewPaths,     \* model paths that a user may enter
    Numbers,      \* the texts of valid numbers, each with its canonical text
    Objects,      \* the same for the JSON of --speculative-config
    Refilled,     \* and what the form makes of the latter: with a model, or <<>> for null
    VllmWords,    \* texts with "vllm" somewhere in them
    SglangWords,  \* texts that are sglang, or end in /sglang, or begin with sglang.
    SglangPaths,  \* those that end in /sglang, which count as an inline value too
    OtherDashed,  \* unknown texts that begin with a dash
    Words         \* the tokens with white space, each with its words


VARIABLES
    line,         \* the command that somebody wrote into the configuration
    pieces        \* how many pieces it has

codecVars == <<line, pieces>>

Tokens == [head : STRING, inline : Seq(STRING)]
Token(text) == [head |-> text, inline |-> <<>>]
Blank == {"", " "}

Row(flag, field, kind) == [flag |-> flag, field |-> field, kind |-> kind]

\* What the encoder writes, in its order, and the further flags of the decoder.
Written(backend) ==
    CASE backend = "llama_cpp" ->
            <<Row("--ctx-size", "context_length", "int"),
              Row("--flash-attn", "flash_attn", "choice"),
              Row("--jinja", "jinja", "bool"), Row("--mmproj", "mmproj", "str"),
              Row("--top-k", "top_k", "int")>>
      [] backend = "vllm" ->
            <<Row("--max-model-len", "context_length", "int"),
              Row("--dtype", "dtype", "str"),
              Row("--trust-remote-code", "trust_remote_code", "bool"),
              Row("--speculative-config", "speculative", "json")>>
      [] backend = "sglang" ->
            <<Row("--context-length", "context_length", "int"),
              Row("--tp-size", "tp_size", "int"),
              Row("--enable-metrics", "enable_metrics", "bool")>>

Aliases(backend) ==
    CASE backend = "llama_cpp" ->
            {Row("-m", "model_path", "str"), Row("--model", "model_path", "str"),
             Row("-c", "context_length", "int")}
      [] backend = "vllm" -> {Row("--model", "model_path", "str")}
      [] backend = "sglang" ->
            {Row("--model-path", "model_path", "str"),
             Row("--tensor-parallel-size", "tp_size", "int")}

\* all_flags
Flags(backend) ==
    {Row("--port", "port_token", "str")} \cup Aliases(backend)
        \cup ToSet(Written(backend))

FlagTexts(backend) == {row.flag : row \in Flags(backend)}
Fields(backend) == {row.field : row \in Flags(backend)}
ModelFlag(backend) == IF backend = "sglang" THEN "--model-path" ELSE "--model"

AllBackends == {"llama_cpp", "vllm", "sglang"}
DashedFlags == UNION {FlagTexts(b) : b \in AllBackends}
BeginsWithDash(token) == token.head \in OtherDashed \cup DashedFlags

\* int(text) and json.loads give the same for the text of what they gave; a blank
\* text is no number; the form sends an object as the server reads it; no flag has
\* the name of a backend in it; a model path is under a model root.
ASSUME CodecConstants ==
    /\ MaxPieces \in Nat
    /\ Launchers \cup Pieces \subseteq Seq(Tokens)
    /\ SglangPaths \subseteq SglangWords
    /\ \A canonical \in {Numbers, Objects} : \A text \in DOMAIN canonical :
          /\ text \in STRING /\ canonical[text] \in DOMAIN canonical
          /\ canonical[canonical[text]] = canonical[text]
    /\ DOMAIN Numbers \cap Blank = {}
    /\ \A text \in DOMAIN Objects :
          /\ Objects[text] \in DOMAIN Refilled
          /\ Refilled[Objects[text]] \in
                {<<>>} \cup {<<Token(Objects[other])>> : other \in DOMAIN Objects}
    /\ "4096" \in DOMAIN Numbers /\ Numbers["4096"] = "4096"
    /\ DashedFlags \cap (VllmWords \cup SglangWords) = {}
    /\ DashedFlags \cup {"", "4096", "${PORT}", "True", "auto"} \subseteq STRING
    /\ NewPaths \subseteq STRING \ {""}
    /\ \A token \in DOMAIN Words : Words[token] \in Seq(Tokens)

-----------------------------------------------------------------------------
(* Decoding. *)

\* _detect_backend: the words and the flags that only one backend has, sglang first.
NamesSglang(t) ==
    \/ t.head \in SglangWords \cup {"--model-path", "--context-length"}
    \/ ToSet(t.inline) \cap SglangPaths # {}

NamesVllm(t) ==
    \/ ({t.head} \cup ToSet(t.inline)) \cap VllmWords # {}
    \/ t.head \in FlagTexts("vllm") \ FlagTexts("llama_cpp")

Detected(tokens) ==
    IF \E t \in tokens : NamesSglang(t) THEN "sglang"
    ELSE IF \E t \in tokens : NamesVllm(t) THEN "vllm" ELSE "llama_cpp"

DetectBackend(tokens) == Detected(ToSet(tokens))

\* _vllm_positional_model and _first_known_flag, 0 for None
PositionalModel(tokens) ==
    LET at == {i \in 1 .. Len(tokens) - 1 :
                  tokens[i] = Token("serve") /\ ~BeginsWithDash(tokens[i + 1])}
    IN  IF at = {} THEN 0 ELSE Min(at) + 1

FirstKnownFlag(tokens, texts) == SelectInSeq(tokens, LAMBDA t : t.head \in texts)

\* _convert_value, and the checks of the settings: <<>> is an error.
Convert(kind, token) ==
    CASE kind = "int" ->
            IF token.head \in DOMAIN Numbers THEN <<Token(Numbers[token.head])>> ELSE <<>>
      [] kind = "json" ->
            IF token.head \in DOMAIN Objects THEN <<Token(Objects[token.head])>> ELSE <<>>
      [] kind = "choice" -> IF token.head \in {"auto", "on", "off"} THEN <<token>> ELSE <<>>
      [] OTHER -> <<token>>

Set(acc, row, token) ==
    [acc EXCEPT !.fields[row.field] = Convert(row.kind, token),
                !.ok = @ /\ Convert(row.kind, token) # <<>>,
                !.wants = <<>>]

\* As Read, but a switch takes the next token for its value.
ReadSwitchValue(acc, token, rows) ==
    LET known == {r \in rows : r.flag = token.head}
        row == CHOOSE r \in known : TRUE
    IN  CASE acc.wants # <<>> -> Set(acc, acc.wants[1], token)
          [] acc.wants = <<>> /\ known = {} -> [acc EXCEPT !.unknown = Append(@, token)]
          [] acc.wants = <<>> /\ known # {} /\ token.inline # <<>> ->
                Set(acc, row, Token(token.inline[1]))
          [] OTHER -> [acc EXCEPT !.wants = <<row>>]

\* One token of the loop of decode.  A switch is set whatever its inline value;
\* the last of several occurrences counts; a token that is no known flag and no
\* value of one is kept.
Read(acc, token, rows) ==
    LET known == {r \in rows : r.flag = token.head}
        row == CHOOSE r \in known : TRUE
    IN  CASE acc.wants # <<>> -> Set(acc, acc.wants[1], token)
          [] acc.wants = <<>> /\ known = {} -> [acc EXCEPT !.unknown = Append(@, token)]
          [] acc.wants = <<>> /\ known # {} /\ row.kind = "bool" ->
                Set(acc, row, Token("True"))
          [] acc.wants = <<>> /\ known # {} /\ row.kind # "bool" /\ token.inline # <<>> ->
                Set(acc, row, Token(token.inline[1]))
          [] OTHER -> [acc EXCEPT !.wants = <<row>>]

\* The loop begins with the defaults, and with the model path if it is positional.
Defaults(backend, path) ==
    [fields |-> [f \in Fields(backend) |->
                    CASE f = "context_length" -> <<Token("4096")>>
                      [] f = "port_token" -> <<Token("${PORT}")>>
                      [] f = "model_path" -> path
                      [] OTHER -> <<>>],
     unknown |-> <<>>, wants |-> <<>>, ok |-> TRUE]

ReadAll(start, tokens, rows) == FoldLeft(LAMBDA acc, t : Read(acc, t, rows), start, tokens)

\* decode: <<>> for CommandDecodeError, else <<settings>>
Decode(tokens) ==
    LET backend == DetectBackend(tokens)
        positional == IF backend = "vllm" THEN PositionalModel(tokens) ELSE 0
        first == IF positional # 0 THEN positional + 1
                 ELSE FirstKnownFlag(tokens, FlagTexts(backend))
        launch == SubSeq(tokens, 1, IF positional # 0 THEN positional - 1 ELSE first - 1)
        path == IF positional # 0 THEN <<tokens[positional]>> ELSE <<>>
        end == ReadAll(Defaults(backend, path), SubSeq(tokens, first, Len(tokens)),
                       Flags(backend))
    IN  IF /\ tokens # <<>> /\ first # 0 /\ launch # <<>>
           /\ end.ok /\ end.wants = <<>>
           /\ end.fields["model_path"] \notin {<<>>, <<Token("")>>}
        THEN <<[backend |-> backend, launch_tokens |-> launch,
                positional |-> positional # 0, fields |-> end.fields,
                unknown_tokens |-> end.unknown]>>
        ELSE <<>>

-----------------------------------------------------------------------------
(* Encoding. *)

\* As AppendFlag, but only None and False are left out.
AppendBlank(row, value) ==
    IF value = <<>> THEN <<>>
    ELSE IF row.kind = "bool" THEN <<Token(row.flag)>> ELSE <<Token(row.flag), value[1]>>

\* _append: nothing for None, False and a blank text; a switch has no value.
AppendFlag(row, value) ==
    IF value = <<>> \/ value[1].head \in Blank THEN <<>>
    ELSE IF row.kind = "bool" THEN <<Token(row.flag)>> ELSE <<Token(row.flag), value[1]>>

AddFlag(tokens, row, fields) == tokens \o AppendFlag(row, fields[row.field])

\* encode
Encode(s) ==
    s.launch_tokens
    \o (IF s.backend = "vllm" /\ s.positional THEN <<>>
        ELSE <<Token(ModelFlag(s.backend))>>)
    \o s.fields["model_path"]
    \o <<Token("--port")>> \o s.fields["port_token"]
    \o FoldLeft(LAMBDA tokens, row : AddFlag(tokens, row, s.fields), <<>>, Written(s.backend))
    \o s.unknown_tokens

-----------------------------------------------------------------------------
(* The editor of the browser, and the server's check of what it sends. *)

\* The compatibility arguments are one line of text, cut at white space.
Retyped(token) ==
    IF token.head \in Blank THEN <<>>
    ELSE IF token \in DOMAIN Words THEN Words[token] ELSE <<token>>

FieldKind(b, f) == (CHOOSE row \in Flags(b) : row.field = f).kind

\* What an input sends that nobody touched.  A text field sends "" for None, a
\* selection shows and sends its first choice, and the fields of the speculative
\* object send "" for a model that it has not; without a method it becomes null.
Sent(kind, value) ==
    CASE kind = "str" /\ value = <<>> -> <<Token("")>>
      [] kind = "choice" /\ value = <<>> -> <<Token("auto")>>
      [] kind = "json" /\ value # <<>> -> Refilled[value[1].head]
      [] OTHER -> value

\* editorPayload for a form that nobody touched
Payload(s) ==
    [s EXCEPT
        !.unknown_tokens = FoldLeft(LAMBDA all, t : all \o Retyped(t), <<>>, @),
        !.fields = [f \in DOMAIN @ |-> Sent(FieldKind(s.backend, f), @[f])]]

\* _ensure_immutable_command_fields
Immutable(s) == <<s.backend, s.launch_tokens, s.positional, s.fields["port_token"]>>

-----------------------------------------------------------------------------
CodecInit == line \in Launchers /\ pieces = 0

\* External: somebody writes a command.
Write ==
    /\ pieces < MaxPieces
    /\ \E piece \in Pieces : line' = line \o piece
    /\ pieces' = pieces + 1

CodecNext == Write

CodecSpec == CodecInit /\ [][CodecNext]_codecVars

\* Settings that a command can say.  It cannot say a blank text, which is not
\* written; a token "serve" behind the launcher, which may make the next one the
\* model, or such a model that begins with a dash; an unknown token that is a
\* known flag; and, unless the backend is sglang, whose flags are looked for
\* first, a value that is by itself the name or a flag of another backend.
Representable(s) ==
    LET values == UNION {ToSet(s.fields[f]) : f \in DOMAIN s.fields}
        tokens == values \cup ToSet(s.unknown_tokens)
    IN  /\ \A f \in DOMAIN s.fields \ {"model_path", "port_token"} :
              \A t \in ToSet(s.fields[f]) : t.head \notin Blank
        /\ Token("serve") \notin tokens
        /\ s.positional => \A t \in ToSet(s.fields["model_path"]) : ~BeginsWithDash(t)
        /\ \A t \in ToSet(s.unknown_tokens) : t.head \notin FlagTexts(s.backend)
        /\ s.backend = "sglang" \/ Detected(tokens) \in {s.backend, "llama_cpp"}

\* Decoding, encoding and decoding again changes nothing: whatever the order,
\* the aliases, the repetitions and the inline values of the command, no flag
\* is lost, doubled or read as a value, and the unknown tokens keep their order.
CodecStable ==
    \A s \in ToSet(Decode(line)) : Representable(s) => Decode(Encode(s)) = <<s>>

\* Settings without their blank texts, which no command can say.
WithoutBlank(f, value) ==
    IF f \notin {"model_path", "port_token"} /\ value # <<>> /\ value[1].head \in Blank
    THEN <<>> ELSE value

Shown(s) == [s EXCEPT !.fields = [f \in DOMAIN @ |-> WithoutBlank(f, @[f])]]

\* "Unsupported command arguments cannot be silently lost": saving the form with
\* another model path gives a command with that path, the same launcher and port,
\* and for every other field the value that the command had before, but for the
\* two that the form fills in by itself: a selection without a choice and what a
\* speculative object lacks.  Arguments without white space keep text and order.
SavedAsShown ==
    \A s \in ToSet(Decode(line)), path \in NewPaths :
        LET sent == [Payload(s) EXCEPT !.fields["model_path"] = <<Token(path)>>]
            again == Decode(Encode(sent))
        IN  Representable(Shown(sent))
            => /\ Len(again) = 1
               /\ Immutable(again[1]) = Immutable(s)
               /\ again[1].fields["model_path"] = <<Token(path)>>
               /\ \A f \in DOMAIN s.fields \ {"model_path"} :
                     \/ again[1].fields[f] = WithoutBlank(f, s.fields[f])
                     \/ f = "flash_attn" /\ s.fields[f] = <<>>
                     \/ f = "speculative" /\ s.fields[f] # <<>>
               /\ (\A t \in ToSet(s.unknown_tokens) :
                     t.head \notin Blank /\ t \notin DOMAIN Words)
                  => again[1].unknown_tokens = s.unknown_tokens
=============================================================================

------------------------------ MODULE MCCodec ------------------------------
(***************************************************************************)
(* Commands for TLC: the launchers, the pieces that may follow and what    *)
(* the texts in them mean.                                                 *)
(***************************************************************************)
EXTENDS CommandCodec, TLC

\* No command, a llama.cpp server, vLLM in both ways, and a module of Python whose -m is a
\* flag of llama.cpp.
Inline(text, value) == [head |-> text, inline |-> <<value>>]
Beginnings ==
    {<<>>, <<Token("llama-server")>>, <<Token("vllm")>>, <<Token("vllm"), Token("serve")>>,
     <<Token("python"), Token("-m"), Token("sglang.launch_server")>>}

\* Model flags and aliases, inline values, a switch with a value, blank values,
\* numbers that are not canonical, flags of another backend, unknown tokens
\* with and without white space, one with a flag in it, and "serve" as a value
\* and by itself.
Two(flag, value) == <<Token(flag), Token(value)>>
SomePieces ==
    {<<Token("p")>>, <<Inline("--mmproj", "sglang.x")>>, <<Inline("--mmproj", "--dtype")>>,
     Two("--model", "--foo"), Two("-m", "p"), Two("--model", "p"), Two("--model-path", "p"),
     Two("--port", "9"), <<Inline("--port", "8")>>, Two("-c", "08"),
     <<Inline("--max-model-len", "8")>>, <<Token("--jinja")>>,
     <<Inline("--jinja", "false")>>, <<Token("--trust-remote-code")>>,
     Two("--dtype", ""), Two("--mmproj", ""), <<Inline("--dtype", "serve")>>,
     Two("--foo", "w x"), <<Token("w --jinja")>>, <<Inline("--foo", "/x/sglang")>>,
     Two("--speculative-config", "j"), Two("--speculative-config", "e"),
     <<Token("serve")>>, Two("--tp-size", "8"), Two("--flash-attn", "on")}

CanonicalNumbers == "8" :> "8" @@ "08" :> "8" @@ "4096" :> "4096"

\* j has a method and blanks in it, k is the same as json.dumps writes it, and
\* m has "model":"" as well; e has an empty method.
CanonicalObjects == "j" :> "k" @@ "k" :> "k" @@ "m" :> "m" @@ "e" :> "e"
FilledIn == "k" :> <<Token("m")>> @@ "m" :> <<Token("m")>> @@ "e" :> <<>>

SplitWords ==
    Token("w x") :> <<Token("w"), Token("x")>>
        @@ Token("w --jinja") :> <<Token("w"), Token("--jinja")>>
=============================================================================

---------------------------- MODULE SemanticCall ----------------------------
(***************************************************************************)
(* A function call on its way from the frontend to the compute graph: the  *)
(* decorator parses the docstring and transforms it (frontend/pfunc), a    *)
(* call binds its arguments, is turned into a payload, parsed again by the *)
(* serve layer (serve/graph/call_request.py) and cut into completion       *)
(* chains, and the ids of the variables come back to the caller.           *)
(*                                                                         *)
(* A docstring is a sequence of pieces, texts and parameter names; no two  *)
(* texts are adjacent.  Texts are the tokens "word" (a text the formatter  *)
(* keeps) and "indent" (one it removes altogether).  The texts a caller    *)
(* passes contain no placeholder.                                          *)
(***************************************************************************)
EXTENDS RequestChains, SequencesExt, Subsequences

CONSTANTS
    Params,      \* the parameters, in the order of the signature
    Typ,         \* their types: INPUT_LOC, INPUT_PYOBJ or OUTPUT_LOC
    Sampled,     \* the outputs that carry a sampling config
    Unknown,     \* a name that is not a parameter
    Calls,       \* the argument lists the callers use
    MaxBody      \* bound: the pieces of a docstring

VARIABLES
    stage,       \* what happens next: "define", "call", "submit" or "serve"
    func,        \* the function: is it native, its body, remove_pure_fill
    source,      \* the docstring it was made from
    bindings,    \* the values bound to the parameters of the current call
    payload,     \* the request on the wire: template and parameters
    body,        \* the chunks the serve layer parsed
    result       \* how the last definition or call ended

vars == <<stage, func, source, bindings, payload, body, result>>

NoId == <<"none", 0>>
Unset == "Unset"      \* Python's None
Nil == "Nil"          \* the empty text

\* What a conversation template adds.
Roles == {"system", "user", "assistant", "sep"}

ASSUME ParamsAssumption ==
    /\ Params \in Seq(DOMAIN Typ) /\ ToSet(Params) = DOMAIN Typ
    /\ \A i, j \in DOMAIN Params : Params[i] = Params[j] => i = j
    /\ Unknown \notin DOMAIN Typ
    /\ MaxBody \in Nat

\* A token is a name, a role or a text, never two of them.
ASSUME TokensAssumption ==
    /\ {Unset, Nil, "word", "indent"} \cap (DOMAIN Typ \cup {Unknown}) = {}
    /\ Roles \cap (DOMAIN Typ \cup {Unknown}) = {}

IsOutput(p) == p \in DOMAIN Typ /\ Typ[p] = "OUTPUT_LOC"
Outputs == {p \in DOMAIN Typ : IsOutput(p)}
Inputs == Without(Params, Outputs)
IsName(t) == t \in DOMAIN Typ \cup {Unknown}

Docstrings ==
    {b \in BoundedSeq({"word", "indent", Unknown} \cup DOMAIN Typ, MaxBody) :
        \A i \in 2 .. Len(b) : IsName(b[i - 1]) \/ IsName(b[i])}

(* ------------------------- defining a function ------------------------- *)

\* An undefined name; an output at the very start (ret[-1] of an empty list),
\* directly after another output, or used twice.
ParseFails(b) ==
    \E i \in DOMAIN b :
        \/ b[i] = Unknown
        \/ /\ IsOutput(b[i])
           /\ \/ i = 1
              \/ IsOutput(b[i - 1])
              \/ \E j \in 1 .. i - 1 : b[j] = b[i]

LastOutput(b) == Max({0} \cup {i \in DOMAIN b : IsOutput(b[i])})

\* Mutant: the pruning is off by one.
ParseFuncBody_OffByOne(b, rpf) ==
    IF rpf THEN SubSeq(b, 1, LastOutput(b) - 1) ELSE b

\* remove_pure_fill prunes everything after the last output.
ParseFuncBody(b, rpf) == IF rpf THEN SubSeq(b, 1, LastOutput(b)) ELSE b

\* The standard formatter removes the indents of a constant.
VisitConstant(t) == IF t = "indent" THEN Nil ELSE t

\* A mutator rewrites the constants and leaves the placeholders alone.
Transformed(b) ==
    [i \in DOMAIN b |-> IF IsName(b[i]) THEN b[i] ELSE VisitConstant(b[i])]

\* Mutant: only the first round is opened by the user's role.
Conversation_OneRound(b) ==
    <<"system">> \o FlattenSeq([i \in DOMAIN b |->
        (IF i = 1 THEN <<"user">> ELSE <<>>)
        \o (IF IsOutput(b[i]) THEN <<"assistant", b[i], "sep">>
                              ELSE <<b[i]>>)])

\* The conversation template: a system message, the user's role at the start
\* of every round, the assistant's role before an output and a separator
\* after it.
Conversation(b) ==
    <<"system">> \o FlattenSeq([i \in DOMAIN b |->
        (IF i = 1 \/ IsOutput(b[i - 1]) THEN <<"user">> ELSE <<>>)
        \o (IF IsOutput(b[i]) THEN <<"assistant", b[i], "sep">>
                              ELSE <<b[i]>>)])

NoPayload == [template |-> <<>>, parameters |-> << >>]

SemanticFunction(b, rpf, conv) ==
    [native |-> FALSE, body |-> b, rpf |-> rpf, conv |-> conv]
PyNativeFunction ==
    [native |-> TRUE, body |-> <<>>, rpf |-> FALSE, conv |-> FALSE]

Init ==
    /\ stage = "define"
    /\ func = SemanticFunction(<<>>, TRUE, FALSE)
    /\ source = <<>>
    /\ bindings = << >>
    /\ payload = NoPayload
    /\ body = <<>>
    /\ result = "none"

\* The decorator semantic_function, with the standard formatter and with or
\* without a conversation template.
DefineSemantic(b, rpf, conv) ==
    /\ stage = "define"
    /\ IF ParseFails(b)
       THEN result' = "parse error" /\ UNCHANGED <<stage, func, source>>
       ELSE LET parsed == Transformed(ParseFuncBody(b, rpf)) IN
            /\ func' = SemanticFunction(
                          IF conv THEN Conversation(parsed) ELSE parsed,
                          rpf, conv)
            /\ source' = b
            /\ stage' = "call"
            /\ result' = "none"
    /\ UNCHANGED <<bindings, payload, body>>

\* The decorator native_function.
DefineNative ==
    /\ stage = "define"
    /\ func' = PyNativeFunction
    /\ stage' = "call"
    /\ result' = "none"
    /\ UNCHANGED <<source, bindings, payload, body>>

(* -------------------------- binding arguments -------------------------- *)

\* What a caller passes and what a parameter is bound to: a Python object
\* (var FALSE; content is its text), or a semantic variable with its id.
Object(text) == [var |-> FALSE, id |-> NoId, content |-> text]
Variable(id) == [var |-> TRUE, id |-> id, content |-> Unset]

\* The callers pass objects, whose texts are no names and no roles, and
\* variables.
IsArgument(v) ==
    \/ v = Object(v.content) /\ ~ IsName(v.content) /\ v.content \notin Roles
    \/ v = Variable(v.id)

ASSUME CallsAssumption ==
    \A c \in Calls :
        /\ c.args \in Seq(ToSet(c.args))
        /\ \A i \in DOMAIN c.args : IsArgument(c.args[i])
        /\ \A p \in DOMAIN c.kwargs : IsArgument(c.kwargs[p])

\* str(None) is a text like any other.
Str(c) == IF c = Unset THEN "word" ELSE c

\* An input given a Python object becomes an unregistered variable with that
\* content.
SetValue(p, v) ==
    IF Typ[p] = "INPUT_LOC" /\ ~ v.var
    THEN [Variable(NoId) EXCEPT !.content = Str(v.content)]
    ELSE v

Positional(c) == {Inputs[i] : i \in 1 .. Len(c.args)}

BindFails(c) ==
    \/ Len(c.args) > Len(Inputs)
    \/ \E p \in DOMAIN c.kwargs :
           \/ p \notin DOMAIN Typ
           \/ p \in Positional(c)
           \/ IsOutput(p) /\ ~ c.kwargs[p].var

Position(p) == CHOOSE i \in DOMAIN Inputs : Inputs[i] = p

\* Outputs that the caller did not preallocate get a fresh variable.
SetBindings(c) ==
    [p \in Positional(c) \cup DOMAIN c.kwargs \cup Outputs |->
        IF p \in Positional(c) THEN SetValue(p, c.args[Position(p)])
        ELSE IF p \in DOMAIN c.kwargs THEN SetValue(p, c.kwargs[p])
        ELSE Variable(NoId)]

CallFunc(c) ==
    /\ stage = "call"
    /\ IF BindFails(c)
       THEN stage' = "call" /\ result' = "bind error" /\ bindings' = << >>
       ELSE stage' = "submit" /\ result' = "none" /\ bindings' = SetBindings(c)
    /\ payload' = NoPayload
    /\ body' = <<>>
    /\ UNCHANGED <<func, source>>

CallSemantic(c) == ~ func.native /\ CallFunc(c)
CallNative(c) == func.native /\ CallFunc(c)

(* -------------------------- building a payload ------------------------- *)

\* A parameter without a value; an unregistered variable without content,
\* which cannot be fetched; an output without a sampling config.
PayloadFails ==
    \E p \in DOMAIN Typ :
        \/ p \notin DOMAIN bindings
        \/ /\ bindings[p].var /\ bindings[p].id = NoId
           /\ bindings[p].content = Unset /\ ~ IsOutput(p)
        \/ IsOutput(p) /\ ~ func.native /\ p \notin Sampled

\* A variable is sent by id, an unregistered input or (to a native function)
\* a Python object by value.
ParamDict(p) ==
    LET v == bindings[p]
    IN  [is_output |-> IsOutput(p), var_id |-> v.id,
         value |-> IF v.id = NoId /\ ~ IsOutput(p) THEN v.content ELSE Unset]

\* Mutant: the objects are not rendered into the template.
Rendered_NotAtAll(t) == t

\* Python objects are rendered into the template of a semantic function.
Rendered(t) ==
    IF IsName(t) /\ ~ bindings[t].var THEN Str(bindings[t].content) ELSE t

SemanticPayload ==
    [template |->
        Without([i \in DOMAIN func.body |-> Rendered(func.body[i])], {Nil}),
     parameters |-> [p \in {q \in DOMAIN Typ : bindings[q].var} |->
                        ParamDict(p)]]

\* A native function gets every parameter, Python objects as they are.
NativePayload ==
    [template |-> <<>>, parameters |-> [p \in DOMAIN Typ |-> ParamDict(p)]]

Submit(request) ==
    /\ stage = "submit"
    /\ IF PayloadFails
       THEN stage' = "call" /\ result' = "payload error" /\ UNCHANGED payload
       ELSE /\ stage' = "serve"
            /\ payload' = request
            /\ UNCHANGED result
    /\ UNCHANGED <<func, source, bindings, body>>

SubmitSemantic == ~ func.native /\ Submit(SemanticPayload)
SubmitNative == func.native /\ Submit(NativePayload)

(* --------------------- the serve layer parses it ----------------------- *)

\* Mutant: the check of preallocated outputs is dropped.
ParameterRejected_NoOutputCheck(e) ==
    ~ e.is_output /\ e.var_id = NoId /\ e.value = Unset

\* The checks of SemanticFunctionParameter and NativeFunctionParameter.
ParameterRejected(e) ==
    \/ e.is_output /\ e.var_id # NoId
    \/ e.var_id # NoId /\ e.value # Unset
    \/ ~ e.is_output /\ e.var_id = NoId /\ e.value = Unset

TextChunk(t) == [name |-> Nil, text |-> t]
Placeholder(n) == [name |-> n, text |-> <<>>]

\* Adjacent texts of the template are one text, hence one chunk.
PushToken(chunks, t) ==
    IF IsName(t) THEN Append(chunks, Placeholder(t))
    ELSE IF chunks # <<>> /\ Last(chunks).name = Nil
    THEN Append(Front(chunks), TextChunk(Append(Last(chunks).text, t)))
    ELSE Append(chunks, TextChunk(<<t>>))

\* The template is parsed from left to right.
Chunks(t) ==
    LET parsed[n \in 0 .. Len(t)] ==
          IF n = 0 THEN <<>> ELSE PushToken(parsed[n - 1], t[n])
    IN  parsed[Len(t)]

\* remove_pure_fill drops the text after the last placeholder.
ParseTemplate(t, rpf) ==
    LET chunks == Chunks(t)
    IN  IF rpf /\ chunks # <<>> /\ Last(chunks).name = Nil
        THEN Front(chunks) ELSE chunks

IsGen(chunk) == IsOutput(chunk.name)
GenBits(chunks) == [i \in DOMAIN chunks |-> IsGen(chunks[i])]

\* Why a parsed request is refused: RequestChain.from_chunked_request has no
\* first node, meets a name without a parameter, or a Gen without a node
\* before it.
ChainError(chunks, parameters) ==
    CASE chunks = <<>> -> "empty body"
      [] \E c \in ToSet(chunks) : c.name \notin DOMAIN parameters \cup {Nil} ->
             "unknown placeholder"
      [] chunks # <<>> /\ IsGen(chunks[1]) -> "first chunk is a Gen"
      [] OTHER -> "none"

\* The variable of a node: a fresh one, named after the node, for an output
\* and for an input sent by value (should_create), else the one named.
NodeVar(i, e) ==
    IF e.is_output \/ e.var_id = NoId THEN <<"fresh", i>> ELSE e.var_id

\* The entries of param_info in turn: the last one of a parameter wins.
UpdateVarIds(info) ==
    [p \in DOMAIN bindings |->
        LET entries == {i \in DOMAIN info : info[i][1] = p}
        IN  IF entries = {} THEN bindings[p]
            ELSE [bindings[p] EXCEPT !.id = info[Max(entries)][2]]]

\* One entry for every node with a placeholder.
SemanticParamInfo(chunks, parameters) ==
    [i \in DOMAIN chunks |->
        <<chunks[i].name, IF chunks[i].name = Nil THEN NoId
                          ELSE NodeVar(i, parameters[chunks[i].name])>>]

\* One entry for every parameter without a value.
NativeParamInfo(parameters) ==
    [i \in DOMAIN Params |->
        IF parameters[Params[i]].value # Unset THEN <<Nil, NoId>>
        ELSE <<Params[i], NodeVar(i, parameters[Params[i]])>>]

Rejected ==
    \E p \in DOMAIN payload.parameters :
        ParameterRejected(payload.parameters[p])

\* The request is refused with an error, or accepted: then its param_info is
\* the answer.
Answer(error, info) ==
    /\ stage' = "call"
    /\ result' = IF error = "none" THEN "ok" ELSE error
    /\ bindings' = IF error = "none" THEN UpdateVarIds(info) ELSE bindings
    /\ UNCHANGED <<func, source, payload>>

ServeSemantic ==
    /\ stage = "serve" /\ ~ func.native
    /\ LET chunks == ParseTemplate(payload.template, func.rpf)
       IN  IF Rejected
           THEN body' = <<>> /\ Answer("parameter rejected", <<>>)
           ELSE /\ body' = chunks
                /\ Answer(ChainError(chunks, payload.parameters),
                          SemanticParamInfo(chunks, payload.parameters))

ServeNative ==
    /\ stage = "serve" /\ func.native
    /\ body' = <<>>
    /\ Answer(IF Rejected THEN "parameter rejected" ELSE "none",
              NativeParamInfo(payload.parameters))

Next ==
    \/ \E b \in Docstrings, rpf, conv \in BOOLEAN :
          DefineSemantic(b, rpf, conv)
    \/ DefineNative
    \/ \E c \in Calls : CallSemantic(c) \/ CallNative(c)
    \/ SubmitSemantic
    \/ SubmitNative
    \/ ServeSemantic
    \/ ServeNative

Spec == Init /\ [][Next]_vars

(* ------------------------------ properties ------------------------------ *)

Served == stage = "call" /\ result = "ok" /\ ~ func.native

\* What the user wrote, as a reader of the docstring understands it: the
\* pieces up to the last output (all of them without remove_pure_fill),
\* Python objects replaced by their texts, indents and empty texts gone.
Meant ==
    LET kept == IF func.rpf /\ LastOutput(source) > 0
                THEN SubSeq(source, 1, LastOutput(source)) ELSE source
        text(t) == IF t = "indent" THEN Nil
                   ELSE IF IsName(t) /\ ~ bindings[t].var
                   THEN Str(bindings[t].content) ELSE t
    IN  Without([i \in DOMAIN kept |-> text(kept[i])], {Nil})

\* The tokens of the parsed request in order.
Tokens ==
    FlattenSeq([i \in DOMAIN body |->
        IF body[i].name = Nil THEN body[i].text ELSE <<body[i].name>>])

\* The prompt the serve layer executes is the one the user wrote: two parsers
\* and two prunings in two layers, the formatter, the conversation template
\* and the rendering of objects lose, reorder and add nothing but roles.
PromptPreserved ==
    Served => Without(Tokens, Roles) = Meant

\* In a conversation every output is preceded by the assistant's role, and
\* everything between two outputs belongs to a round opened by the user's.
RolesAlternate ==
    Served /\ func.conv =>
        LET spoken == Only(Tokens, {"user", "assistant"} \cup Outputs)
        IN  \A i \in DOMAIN spoken :
                /\ IsOutput(spoken[i]) => i > 2 /\ spoken[i - 1] = "assistant"
                                                /\ spoken[i - 2] = "user"
                /\ spoken[i] = "user" => i = 1 \/ IsOutput(spoken[i - 1])

\* A call that the frontend accepted is refused by the serve layer for four
\* reasons only, each of them one the frontend could have seen: a
\* preallocated output that is registered, None for a native function's
\* object, a prompt with nothing to generate, and a prompt whose text before
\* its first output vanished.  It never meets a name without a parameter.
RefusedForKnownReason ==
    stage = "call" =>
        /\ result # "unknown placeholder"
        /\ result = "parameter rejected" =>
               \/ \E p \in Outputs : bindings[p].id # NoId
               \/ /\ func.native
                  /\ \E p \in DOMAIN Typ : bindings[p] = Object(Unset)
        /\ result = "empty body" => Outputs \cap ToSet(source) = {}
        /\ result = "first chunk is a Gen" => ~ func.conv

\* The caller holds the right ids: the output variables name what their own
\* Gen (or the native function) produces, no two outputs share one, and a
\* registered input is still the variable it was.
OutputIdsAreGens ==
    stage = "call" /\ result = "ok" =>
        /\ \A p \in DOMAIN payload.parameters :
               LET e == payload.parameters[p]
               IN  e.var_id # NoId => bindings[p].id = e.var_id
        /\ \A p \in Outputs :
               /\ func.native \/ p \in ToSet(source) => bindings[p].id # NoId
               /\ \A q \in Outputs \ {p} : bindings[p].id # NoId =>
                                           bindings[q].id # bindings[p].id
               /\ ~ func.native /\ bindings[p].id # NoId =>
                      body[bindings[p].id[2]].name = p

\* The chain of a request's first output iterates over all the nodes up to
\* its Gen, and with one output it is the chain of all of these nodes.
FirstChainComplete ==
    Served =>
        LET b == GenBits(body)
        IN  \A g \in Gens(b) : GensBefore(b, g) = {} =>
                /\ IterFrom(b, CompletionChainFirst(b, g)) = ProperChain(b, g)
                /\ IterFillFrom(b, CompletionChainFirst(b, g))
                       = ProperChain(b, g) \ {g}
                /\ Gens(b) = {g} =>
                       \A i \in ProperChain(b, g) : CompChainOf(b, i) = g

\* Every output of a request has a completion chain of its own, "Fill -> Fill
\* -> Fill -> Gen", as the two-output example of SemanticFunction needs.
EveryGenHasChain ==
    Served => LET b == GenBits(body)
              IN  \A g \in Gens(b) : CompChainOf(b, g) = g
=============================================================================

------------------------------ MODULE Parsing ------------------------------
(***************************************************************************)
(* lemon and then the parser it has generated: a grammar is turned into    *)
(* tables, and the engine of lempar.c reads a word with them.  It is       *)
(* called for each token and at last for the end of the input, with a step *)
(* for each call and for each round of the loop in Parse.                  *)
(***************************************************************************)
EXTENDS Lemon, Lempar

CONSTANTS
    Inputs,    \* the words that are parsed
    Argument,  \* what the %extra_argument points to
    Minors     \* the values of tokens

ASSUME ParsingAssumption == Inputs \subseteq Seq(Nat)

VARIABLES
    input,     \* the tokens the parser is called with, $ the last of them
    nread,     \* how many of them have been dealt with
    yyp,       \* the parser
    accepted,  \* yy_accept has run
    failed     \* a syntax error, an overflow of the stack or a failed assertion has been met

parsingVars == <<input, nread, yyp, accepted, failed>>

ParsingInit ==
    /\ Init
    /\ input = << >>
    /\ nread = 0
    /\ yyp = ParseInit(Argument)
    /\ accepted = FALSE
    /\ failed = FALSE

Generate == Next /\ UNCHANGED parsingVars

\* ParseAlloc: the parser that has been generated is used on a word.
ParseAlloc ==
    /\ phase = "done" /\ phase' = "parsing"
    /\ \E word \in Inputs :
         /\ Range(word) \subseteq Terminals(g) \ {0}
         /\ input' = Append(word, 0)
    /\ yyp' = ParseInit(Argument)
    /\ UNCHANGED <<g, ff, states, calls, follow, parser, conflicts, errors, nconflict, pack, tables>>
    /\ UNCHANGED <<nread, accepted, failed>>

\* Parse is called with the next token, $ after the last one.
Parse ==
    /\ phase = "parsing"
    /\ nread < Len(input)
    /\ yyp.ok /\ ~ yyp.busy /\ ~ accepted
    /\ yyp' = Offer(yyp)
    /\ UNCHANGED <<vars, input, nread, accepted, failed>>

Token == input[nread + 1]

\* What the parser does in its state with the token.
Found == yy_find_shift_action(tables, Token, yytos(yyp).stateno)

Round ==
    /\ phase = "parsing"
    /\ yyp.ok /\ yyp.busy
    /\ \E yyminor \in Minors : yyp' = Once(tables, yyp, Token, yyminor)
    /\ accepted' = (yyp'.ok /\ Found = tables.YY_ACCEPT_ACTION)
    /\ failed' = \/ failed
                  \/ /\ ~ accepted'
                     /\ ~ yyp'.ok \/ AtBottom(yyp') \/ Found = tables.YY_ERROR_ACTION
    /\ nread' = IF yyp'.ok /\ ~ yyp'.busy /\ ~ accepted' THEN nread + 1 ELSE nread
    /\ UNCHANGED <<vars, input>>

ParsingNext == Generate \/ ParseAlloc \/ Parse \/ Round

ParsingSpec == ParsingInit /\ [][ParsingNext]_<<vars, parsingVars>>

-----------------------------------------------------------------------------
(***************************************************************************)
(* What a grammar says of the tokens read: <<configuration, from, to>> is  *)
(* a reading if those after the first "from" up to "to" can be what the    *)
(* configuration has before its dot.                                       *)
(***************************************************************************)

Parts == Configs(g) \X (0 .. Len(input)) \X (0 .. Len(input))

\* They can be the symbol, as far as readings are known.
ReadsAs(known, symbol, from, to) ==
    IF symbol \in Terminals(g) THEN to = from + 1 /\ input[to] = symbol
    ELSE \E r \in RulesOf(g, symbol) : <<<<r, Len(g.rules[r].rhs)>>, from, to>> \in known

\* One symbol more is read.
Further(known, part) ==
    IF ~ Shiftable(g, part[1]) THEN {}
    ELSE {<<<<part[1][1], part[1][2] + 1>>, part[2], to>> :
            to \in {next \in 0 .. Len(input) :
                      ReadsAs(known, SymbolAfter(g, part[1]), part[3], next)}}

Readings ==
    Grown([known \in SUBSET Parts |-> known \cup UNION {Further(known, part) : part \in known}],
          {<<<<r, 0>>, at, at>> : r \in Rules(g), at \in 0 .. Len(input)}, Cardinality(Parts))

(***************************************************************************)
(* What a generated parser accepts without complaint is a sentence of its  *)
(* grammar, whatever conflicts have been settled on the way; and it is all *)
(* of the input, unless the start symbol is on a right-hand side, which    *)
(* lemon reports.  About all of lemon and the engine of lempar.c: a state  *)
(* merged with another, an action renamed or made a default, a row put     *)
(* over another one, or an entry of the stack too many or too few shows    *)
(* here.  Not promised for tables past their array, nor for rows that      *)
(* share an offset: see TablesSayActions.                                  *)
(***************************************************************************)
AcceptsSentences ==
    accepted /\ ~ failed /\ ~ pack.shared /\ pack.table.nAction <= pack.table.nActionAlloc =>
      /\ ReadsAs(Readings, Start(g), 0, nread)
      /\ ~ errors => nread = Len(input) - 1

\* There is an offset for every state with tables.
EveryStateHasOffset == DOMAIN tables.yy_shift_ofst = 0 .. YY_MAX_SHIFT(tables)

(***************************************************************************)
(* The assertions of lempar.c hold, whatever tokens come: after syntax     *)
(* errors, after the stack has overflowed, and also when conflicts have    *)
(* been settled.  A state is looked up where there is an offset for it, a  *)
(* reduction finds its right-hand side on the stack and an action for its  *)
(* symbol below, and the start symbol is accepted with nothing left below. *)
(* About what the states on the stack know of each other, from buildshifts *)
(* to CompressTables.                                                      *)
(***************************************************************************)
EngineAsserts ==
    phase = "parsing" =>
      (~ pack.shared /\ pack.table.nAction <= pack.table.nActionAlloc /\ EveryStateHasOffset
        => yyp.ok)

(***************************************************************************)
(* The parser of a grammar that lemon has reported nothing about meets     *)
(* all assertions of lempar.c, assert( stateno <= YY_SHIFT_COUNT ) among   *)
(* them.  It does not: ReportTable ends yy_shift_ofst with the last state  *)
(* that has actions on tokens, and a state that has some on nonterminals   *)
(* only, and a default reduction, may come after it.                       *)
(***************************************************************************)
AssertionsHold == ~ errors /\ nconflict = 0 => yyp.ok

=============================================================================

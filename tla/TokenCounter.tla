---------------------------- MODULE TokenCounter ----------------------------
(***************************************************************************)
(* OrderManager::nextToken called again and again, from any token.         *)
(***************************************************************************)
EXTENDS OrderManager

VARIABLE current  \* m_token

CountInit == current \in Token

CountNext == current' = nextToken(current)

CountSpec == CountInit /\ [][CountNext]_current

\* Until the most significant digit is a nine, every token spells a larger number than
\* the one before, whatever digits the carries skip: none is ever issued twice.
TokensGrow ==
    [][~Exhausted(current) => parse_order_token_decimal(current) < parse_order_token_decimal(current')]_current

\* A nine that is not followed by nines only.
InnerNine(t) ==
    \E i, j \in 1 .. Digits : 1 < i /\ i < j /\ t[i] = Base - 1 /\ t[j] # Base - 1

\* The branchless loop adds one, like the loop it replaces, exactly when the token
\* has no inner nine.
ExactWithoutInnerNine ==
    [][ (\E i \in 1 .. Digits : current[i] # Base - 1)
        => (parse_order_token_decimal(current') = parse_order_token_decimal(current) + 1 <=> ~InnerNine(current))
      ]_current
=============================================================================

--------------------------- MODULE MCRoutedStores ---------------------------
\* Small instances of RoutedStores for TLC.
EXTENDS RoutedStores, TLC

CONSTANTS o1, o2

OneOperator  == {o1}
TwoOperators == {o1, o2}

OperatorsInterchangeable == Permutations(TwoOperators)
=============================================================================

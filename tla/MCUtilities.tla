----------------------------- MODULE MCUtilities -----------------------------
EXTENDS Utilities

\* "" and "a4".
MCUrlParts == {<<>>, <<97, 52>>}
\* "H", "h", "L" and "T".
MCHeaderKeys == {<<72>>, <<104>>, <<76>>, <<84>>}
\* "7", "c" and "C".
MCHeaderValues == {<<55>>, <<99>>, <<67>>}
\* "", "7", "255", "256" and "1x".
MCPartTexts == {<<>>, <<55>>, <<50, 53, 53>>, <<50, 53, 54>>, <<49, 120>>}
MCAmounts == {-1, 1, 2, 5}
\* "", "/a", "a/b", "/:x", "/:x/b", "/a/:y", "/:z" and "/:".
MCRoutes == {<<>>, <<47, 97>>, <<97, 47, 98>>, <<47, 58, 120>>, <<47, 58, 120, 47, 98>>, <<47, 97, 47, 58, 121>>,
             <<47, 58, 122>>, <<47, 58>>}
\* "/", "/a", "/c", "/a/b", "/a/c", "/c/b" and "/c/c".
MCPaths == {<<47>>, <<47, 97>>, <<47, 99>>, <<47, 97, 47, 98>>, <<47, 97, 47, 99>>, <<47, 99, 47, 98>>, <<47, 99, 47, 99>>}

=============================================================================

--------------------------- MODULE MCCompilation ---------------------------
EXTENDS Compilation, MCPrograms

UnanalysedPrograms ==
    ControlFlowPrograms \cup MergePrograms \cup ExpressionPrograms \cup DeadCodePrograms

AllPrograms == UnanalysedPrograms \cup TensorPrograms \cup RedeclarationPrograms

=============================================================================

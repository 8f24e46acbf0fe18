--------------------------- MODULE MCCppWatermark ---------------------------
EXTENDS CppWatermark, TLC

CONSTANTS f1, f2, f3

NoFile == {}
OneFile == {f1}
TwoFiles == {f1, f2}
ThreeFiles == {f1, f2, f3}
FileSymmetry == Permutations(File)

\* A folder that holds an image under the name "EOS".
WithEosFile == {f1, EOS}
=============================================================================

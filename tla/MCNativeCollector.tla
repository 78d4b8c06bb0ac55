-------------------------- MODULE MCNativeCollector --------------------------
EXTENDS NativeCollector, TLC
CONSTANTS b1, b2, f1, f2, main, comp, p1
MCBlock     == {b1, b2}
MCFrame     == {f1, f2}
MCCoroutine == {main, comp}
MCPin       == {p1}
==============================================================================

\* Two threads besides main, with up to one word each on the stack.
CONSTANTS
    TCB = {main, t, u}
    Main = main
    NULL = NULL
    Functions = {f, g}
    Args = {a}
    Sites = {s1, s2}
    threadStart = threadStart
    asm_yield = asm_yield
    asm_yield_cleanup = asm_yield_cleanup
    inCleanup = inCleanup
    bx = bx
    bp = bp
    v12 = v12
    v13 = v13
    v14 = v14
    v15 = v15
    Files <- ZeroOrUsed
    Words = {w}
    zero = zero
    MaxDepth = 1
SYMMETRY Symmetry
SPECIFICATION Spec
INVARIANTS StacksSound
PROPERTIES ImplementsCoroutines

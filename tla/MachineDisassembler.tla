------------------------ MODULE MachineDisassembler ------------------------
(***************************************************************************)
(* disassemble of Assignment3/vmx20.c, with which a caller of the machine  *)
(* looks at its memory, and the format handlers of opHandlers.c.           *)
(*                                                                         *)
(* Of the text there is the name of the instruction and the address that   *)
(* is printed as its last operand, if any; registers, constants and        *)
(* offsets are left out.                                                   *)
(***************************************************************************)
EXTENDS ObjectFile

CONSTANT MAX_ADDR       \* the number of words in the memory

VMX20_ADDRESS_OUT_OF_RANGE == -2
VMX20_ILLEGAL_INSTRUCTION == -3

\* The handlers that print an address, and what the other five print of one.
opAddr(instr, pc) == <<pc + Addr(instr)>>
opRegAddr(instr, pc) == <<pc + Addr(instr)>>
opRegRegAddr(instr, pc) == <<pc + Offset(instr)>>
others(instr, pc) == <<>>

\* By opcode.
instrFormatHandlers == <<
    "op", "opRegAddr", "opRegAddr", "opRegConst", "opRegAddr", "opRegOffsetReg",
    "opRegOffsetReg", "opRegReg", "opRegReg", "opRegReg", "opRegReg", "opRegReg",
    "opRegReg", "opRegReg", "opRegReg", "opAddr", "op", "opRegRegAddr",
    "opRegRegAddr", "opRegRegAddr", "opAddr", "opRegRegAddr", "opReg", "opReg",
    "opReg", "opReg">>

Handled(handler, instr, pc) ==
    CASE handler = "opAddr" -> opAddr(instr, pc)
      [] handler = "opRegAddr" -> opRegAddr(instr, pc)
      [] handler = "opRegRegAddr" -> opRegRegAddr(instr, pc)
      [] OTHER -> others(instr, pc)

Refused(errorNumber) == [returned |-> 0, errorNumber |-> errorNumber]

Printed(name, operand) == [returned |-> 1, name |-> name, operand |-> operand]

disassemble(objCode, address) ==
    IF address > MAX_ADDR THEN Refused(VMX20_ADDRESS_OUT_OF_RANGE)
    ELSE LET instr == objCode[address + 1]
             opcode == Opcode(instr)
         IN  IF opcode > 25 THEN Refused(VMX20_ILLEGAL_INSTRUCTION)
             ELSE Printed(opcodeNames[opcode + 1],
                          Handled(instrFormatHandlers[opcode + 1], instr, address + 1))
=============================================================================

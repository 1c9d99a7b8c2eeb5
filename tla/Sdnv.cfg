\* Numbers of up to 64 bits, the widest the program encodes.
SPECIFICATION Spec
CONSTANT Inputs <- MCInputs
INVARIANTS TypeOK IndexSafe DecodesBack NothingLost SelfDelimiting ShortLengthIsNeeded

SPECIFICATION SuperSpec
CONSTANTS
  NSObject = NSObject
  TestBaseClass = TestBaseClass
  A = A
  B = B
  FSClass1 = FSClass1
  foo = foo
  Foo = Foo
  bad = bad
  v1 = v1
  b1 = b1
  b2 = b2
  short = short
  long = long
  getFoo = getFoo
  setFoo = setFoo
  Class = {NSObject, A, B, FSClass1}
  ObjCClass = {NSObject}
  ObjCChain <- MCObjCChain
  MaxAnonymous = 0
  AnonymousName <- MCNoName
  Prop = {}
  IllFormed = {}
  LowerFirst <- MCLowerFirst
  UpperFirst <- MCUpperFirst
  Value = {}
  MaxList = 0
  Nil = Nil
  NSNull = NSNull
  Block = {b1}
  Sel = {short, long}
  Long = {long}
  TooLong = {}
  Compiled <- MCNothingCompiled
  Getter <- MCGetter
  Setter <- MCSetter
  NoWith = {long}
  MaxDepth = 4
CONSTRAINT MCSuperSmall
VIEW MCSuperView
INVARIANTS SuperReachesSuperclass
